---- MODULE Spec2Model ----
(***************************************************************************)
(* TRIPD: the deduplicating script log (tripd_memory) and the generation   *)
(* entry points that write to it (TripDModel.generate_script and           *)
(* TripDModel.generate_from_section).                                      *)
(*                                                                         *)
(* A text is a sequence of tokens; a token is a piece of the text (one     *)
(* character, or a run of characters none of which JSON escapes).  Two     *)
(* texts the model builds are equal exactly when their token sequences     *)
(* are equal, because every text is built by the same constructors.        *)
(***************************************************************************)
EXTENDS Integers, Sequences, FiniteSets, TLC

VARIABLES
    memoryModule,   \* which tripd_memory module the process imported
    log,            \* the active log file  _LOG_PATH: [exists, lines]
    backup,         \* the ".1" sibling of the log file: [exists, lines]
    SCRIPTS_INDEX,  \* _SCRIPTS_INDEX
    SCRIPT_LIST,    \* _SCRIPT_LIST (package module only)
    CACHE_LOADED,   \* _CACHE_LOADED
    trainJobs,      \* number of training threads started by train_async
    last,           \* the most recent call: what was called and what came back
    firstSeen,      \* history: the texts handed to log_script, in order of first appearance
    pc,             \* per thread: position inside log_script (threaded runs)
    local,          \* per thread: the script of the call in progress
    sections,       \* TripDModel.sections: section name -> list of commands
    all_commands,   \* TripDModel.all_commands: the global command pool
    extra_verbs,    \* TripDModel.extra_verbs: the extra-verb pool
    drift,          \* TripDModel.simulator.drift
    fractal_metrics, \* TripDModel.fractal_metrics
    jobs,           \* the training threads started so far, with their state
    TRAIN_LOG,      \* the lines of the file _TRAIN_LOG
    conns           \* the connections of the verb stream

vars == <<memoryModule, log, backup, SCRIPTS_INDEX, SCRIPT_LIST, CACHE_LOADED,
          trainJobs, last, firstSeen, pc, local,
          sections, all_commands, extra_verbs, drift, fractal_metrics, jobs, TRAIN_LOG,
          conns>>

\* the attributes of the TripDModel object
modelVars == <<sections, all_commands, extra_verbs, drift, fractal_metrics>>

storeVars == <<log, backup, SCRIPTS_INDEX, SCRIPT_LIST>>

-----------------------------------------------------------------------------
(* Bounds of the model *)

\* no more than this many distinct texts are handed to log_script
MaxScripts == 3

\* no more than this many training threads are started
MaxTrainJobs == 2

\* no more than this many scripts are generated in the generation-only runs
MaxGenerated == 5

-----------------------------------------------------------------------------
(* Program constants *)

\* _LOG_MAX_BYTES as the rotation test sets it
LOG_MAX_BYTES == 100

\* length of hashlib.sha256(...).hexdigest()
SHA256_HEX_LEN == 64

\* bytes of  {"hash": "", "script": ""}  plus the newline log_script writes
PKG_LINE_OVERHEAD == 27

\* bytes of  {"script": ""}  plus the newline log_script writes
FLAT_LINE_OVERHEAD == 15

\* get_log_count() % 5 == 0 starts a training job
TRAIN_EVERY == 5

\* train_async trains on load_scripts()[-5:]
TRAIN_BATCH == 5

Package == "tripd/tripd_memory.py"
Flat == "tripd_memory.py"

-----------------------------------------------------------------------------
(* Texts *)

NL == "\n"
BACKSLASH == "\\"
QUOTE == "\""

RECURSIVE SeqSum(_)
SeqSum(ns) ==
    IF Len(ns) = 0 THEN 0
    ELSE IF Len(ns) = 1 THEN ns[1]
    ELSE LET half == Len(ns) \div 2
         IN SeqSum(SubSeq(ns, 1, half)) + SeqSum(SubSeq(ns, half + 1, Len(ns)))

Range(s) == {s[i] : i \in 1..Len(s)}

NoDuplicates(s) == \A i, j \in 1..Len(s) : i # j => s[i] # s[j]

IsSuffix(s, t) ==
    /\ Len(s) <= Len(t)
    /\ s = SubSeq(t, Len(t) - Len(s) + 1, Len(t))

\* s[-n:]
LastN(s, n) == SubSeq(s, IF Len(s) > n THEN Len(s) - n + 1 ELSE 1, Len(s))

\* json.dumps of one piece of a string: the characters JSON escapes
JsonEscapeToken(tok) ==
    CASE tok = NL -> "\\n"
      [] tok = BACKSLASH -> "\\\\"
      [] tok = QUOTE -> "\\\""
      [] OTHER -> tok

\* json.loads of one piece of a string literal
JsonUnescapeToken(tok) ==
    CASE tok = "\\n" -> NL
      [] tok = "\\\\" -> BACKSLASH
      [] tok = "\\\"" -> QUOTE
      [] OTHER -> tok

JsonEscape(text) == [i \in 1..Len(text) |-> JsonEscapeToken(text[i])]
\* a reader that leaves the escape of a newline as it stands in the file
JsonUnescapeKeepsNewline(text) ==
    [i \in 1..Len(text) |-> IF text[i] = "\\n" THEN text[i] ELSE JsonUnescapeToken(text[i])]

JsonUnescape(text) == [i \in 1..Len(text) |-> JsonUnescapeToken(text[i])]

\* number of bytes of a text (the model's texts are ASCII)
Bytes(text) == SeqSum([i \in 1..Len(text) |-> Len(text[i])])

-----------------------------------------------------------------------------
(* tripd/tripd_memory.py *)

\* a digest taken of the length of the text only: distinct texts collide
HashOfLength(script) == <<"sha256", Len(script)>>

\* sha256 is modelled as a collision-free digest: a tagged copy of the text
_hash_script(script) == <<"sha256", script>>

NoFile == [exists |-> FALSE, lines |-> <<>>]
EmptyFile == [exists |-> TRUE, lines |-> <<>>]

\* the line log_script writes
PkgLine(script) == [hash |-> _hash_script(script), script |-> JsonEscape(script)]
FlatLine(script) == [script |-> JsonEscape(script)]

LineBytes(line) ==
    IF "malformed" \in DOMAIN line THEN line.bytes
    ELSE IF "hash" \in DOMAIN line
    THEN PKG_LINE_OVERHEAD + SHA256_HEX_LEN + Bytes(line.script)
    ELSE FLAT_LINE_OVERHEAD + Bytes(line.script)

\* Path.stat().st_size
st_size(file) == SeqSum([i \in 1..Len(file.lines) |-> LineBytes(file.lines[i])])

\* the texts on the lines of a file, as json.loads reads them back
FileScripts(file) == [i \in 1..Len(file.lines) |-> JsonUnescape(file.lines[i].script)]

\* a store is the pair of files and the in-memory cache
Store == [log |-> log, backup |-> backup, index |-> SCRIPTS_INDEX, list |-> SCRIPT_LIST]

_ensure_log(st) ==
    IF ~st.log.exists THEN [st EXCEPT !.log = EmptyFile] ELSE st

\* a rotation that truncates the log and keeps no backup
RotateLogNoBackup(st) ==
    IF ~st.log.exists THEN st
    ELSE IF st_size(st.log) <= LOG_MAX_BYTES THEN st
    ELSE [st EXCEPT !.log = EmptyFile]

\* a rotation that leaves an existing backup in place (the rename does not
\* replace it) and starts the log afresh
RotateLogKeepBackup(st) ==
    IF ~st.log.exists THEN st
    ELSE IF st_size(st.log) <= LOG_MAX_BYTES THEN st
    ELSE [st EXCEPT !.backup = IF st.backup.exists THEN st.backup ELSE st.log,
                    !.log = EmptyFile]

_rotate_log(st) ==
    IF ~st.log.exists THEN st
    ELSE IF st_size(st.log) <= LOG_MAX_BYTES THEN st
    ELSE [st EXCEPT !.backup = st.log, !.log = EmptyFile]

\* the loop of _load_cache over the lines of the file
\* Lines of a log file that are not records written by log_script: what the
\* line holds and the number of its bytes
NotJson == [malformed |-> "not json", bytes |-> 9]
NotAnObject == [malformed |-> "5", bytes |-> 2]
NoKeys == [malformed |-> "{\"foo\": 1}", bytes |-> 11]
ScriptIsNumber == [malformed |-> "{\"script\": 5}", bytes |-> 14]

MalformedLines == {NotJson, NotAnObject, NoKeys, ScriptIsNumber}

\* the number 5 where a text is expected
Number5 == <<"int", "5">>

\* the try block of the package _load_cache on such a line: json.loads
\* raises, or data.get raises (data is no dict), or the text defaults to ""
\* and is added with its hash, or the text 5 is appended to _SCRIPT_LIST
\* and _hash_script(5) raises; every exception is passed over
PkgLoadMalformed(st, line) ==
    CASE line \in {NotJson, NotAnObject} -> st
      [] line = NoKeys ->
            [st EXCEPT !.list = Append(@, <<>>), !.index = @ \cup {_hash_script(<<>>)}]
      [] line = ScriptIsNumber -> [st EXCEPT !.list = Append(@, Number5)]

\* the try block of the flat _load_cache on such a line: json.loads raises,
\* or the subscript ["script"] raises, or 5 is added to _SCRIPTS_INDEX
FlatLoadMalformed(st, line) ==
    CASE line \in {NotJson, NotAnObject, NoKeys} -> st
      [] line = ScriptIsNumber -> [st EXCEPT !.index = @ \cup {Number5}]

RECURSIVE PkgLoadLines(_, _)
PkgLoadLines(lines, st) ==
    IF lines = <<>> THEN st
    ELSE LET line == Head(lines)
             script == JsonUnescape(line.script)
             h == IF "hash" \in DOMAIN line THEN line.hash ELSE _hash_script(script)
         IN IF "malformed" \in DOMAIN line
            THEN PkgLoadLines(Tail(lines), PkgLoadMalformed(st, line))
            ELSE PkgLoadLines(Tail(lines),
                    [st EXCEPT !.list = Append(@, script), !.index = @ \cup {h}])

PkgLoadCache(st) ==
    LET ensured == _ensure_log(st)
    IN PkgLoadLines(ensured.log.lines, ensured)

\* log_script without the membership test
PkgLogScriptNoCheck(st, script) ==
    LET rotated == _rotate_log(_ensure_log(st))
    IN [rotated EXCEPT
            !.log.lines = Append(@, PkgLine(script)),
            !.index = @ \cup {_hash_script(script)},
            !.list = Append(@, script)]

\* log_script that creates and rotates the file before the membership test
PkgLogScriptRotateFirst(st, script) ==
    LET rotated == _rotate_log(_ensure_log(st))
    IN IF _hash_script(script) \in st.index THEN rotated
       ELSE [rotated EXCEPT
                !.log.lines = Append(@, PkgLine(script)),
                !.index = @ \cup {_hash_script(script)},
                !.list = Append(@, script)]

\* log_script whose rotation also starts the cache afresh
PkgLogScriptResetOnRotate(st, script) ==
    IF _hash_script(script) \in st.index THEN st
    ELSE LET ensured == _ensure_log(st)
             rotated == _rotate_log(ensured)
             fresh == IF rotated.backup # ensured.backup
                      THEN [rotated EXCEPT !.index = {}, !.list = <<>>]
                      ELSE rotated
         IN [fresh EXCEPT
                !.log.lines = Append(@, PkgLine(script)),
                !.index = @ \cup {_hash_script(script)},
                !.list = Append(@, script)]

PkgLogScript(st, script) ==
    IF _hash_script(script) \in st.index THEN st
    ELSE LET rotated == _rotate_log(_ensure_log(st))
         IN [rotated EXCEPT
                !.log.lines = Append(@, PkgLine(script)),
                !.index = @ \cup {_hash_script(script)},
                !.list = Append(@, script)]

-----------------------------------------------------------------------------
(* tripd_memory.py (the module without hashes, list and rotation) *)

RECURSIVE FlatLoadLines(_, _)
FlatLoadLines(lines, st) ==
    IF lines = <<>> THEN st
    ELSE IF "malformed" \in DOMAIN Head(lines)
    THEN FlatLoadLines(Tail(lines), FlatLoadMalformed(st, Head(lines)))
    ELSE FlatLoadLines(Tail(lines),
            [st EXCEPT !.index = @ \cup {JsonUnescape(Head(lines).script)}])

FlatLoadCache(st) ==
    LET ensured == _ensure_log(st)
    IN FlatLoadLines(ensured.log.lines, ensured)

\* log_script; its leading _load_cache() is a no-op, the import having run it
FlatLogScript(st, script) ==
    IF script \in st.index THEN st
    ELSE LET ensured == _ensure_log(st)
         IN [ensured EXCEPT
                !.log.lines = Append(@, FlatLine(script)),
                !.index = @ \cup {script}]

-----------------------------------------------------------------------------
(* The functions of the imported memory module *)

log_script(st, script) ==
    IF memoryModule = Package THEN PkgLogScript(st, script) ELSE FlatLogScript(st, script)

\* a count taken of the lines of the active file
LogLineCount(st) == Len(st.log.lines)

get_log_count(st) == Cardinality(st.index)

\* every list that holds the elements of S once each
Orderings(S) ==
    {s \in [1..Cardinality(S) -> S] : \A i, j \in 1..Cardinality(S) : i # j => s[i] # s[j]}

\* what load_scripts can return: list(_SCRIPT_LIST), or list() of a set,
\* whose order the language leaves open
load_scripts(st) ==
    IF memoryModule = Package THEN {st.list} ELSE Orderings(st.index)

SetStore(st) ==
    /\ log' = st.log
    /\ backup' = st.backup
    /\ SCRIPTS_INDEX' = st.index
    /\ SCRIPT_LIST' = st.list

Seen(script) == \E i \in 1..Len(firstSeen) : firstSeen[i] = script

NoteSeen(script) ==
    firstSeen' = IF Seen(script) THEN firstSeen ELSE Append(firstSeen, script)

-----------------------------------------------------------------------------
(* Inputs *)

ScriptA == <<"a">>
ScriptAB == <<"a", NL, "b">>

Bodies == {<<"    awaken()">>, <<"    dream()">>}

\* int(metrics["selector"]) of the metrics record of a generate_script call
Selectors == {0, 3}

\* TripDModel.sections: the names of the sections of the dictionary
SectionNames == {<<"s", " ", "1">>}

\* names a caller may pass to generate_from_section
RequestedSections == SectionNames \cup {<<"n", "o">>}

AlnumTokens == {"s", "1", "n", "o"}

\* "".join(ch if ch.isalnum() or ch == "_" else "_" for ch in section)
SafeName(section) ==
    [i \in 1..Len(section) |->
        IF section[i] \in AlnumTokens \/ section[i] = "_" THEN section[i] ELSE "_"]

\* f"def {func_name}():\n{script_body}\n" with func_name = f"tripd_{name}_{count}"
ScriptText(name, count, body) ==
    <<"def ", "tripd_">> \o name \o <<"_", ToString(count), "():", NL>> \o body \o <<NL>>

\* a text a generation call can build, logged by a direct caller of log_script
ScriptGen == ScriptText(<<ToString(0)>>, 1, <<"    awaken()">>)

DirectScripts == {ScriptA, ScriptAB, ScriptGen}

-----------------------------------------------------------------------------
(* The TripDModel object *)

\* a command is its name followed by the token "()"
Cmd(name) == <<name, "()">>

\* TripDModel.extra_verbs as the constructor sets it
EXTRA_VERBS ==
    << Cmd("wander_verse"), Cmd("spark_improv"), Cmd("dream_twist"),
       Cmd("flow_synapse"), Cmd("ripple_idea"), Cmd("pierce_the_infinite"),
       Cmd("shatter_the_frame"), Cmd("transcend_binary"), Cmd("chaos_injection"),
       Cmd("quantum_superposition"), Cmd("forge_new_reality"),
       Cmd("recursive_reflection"), Cmd("fracture_reality"),
       Cmd("crystallize_thought"), Cmd("galvanize") >>

\* self.sections is a dict: its entries in insertion order, each a record
\* of the key (name) and the value (commands)

\* list(self.sections): the keys in insertion order
Keys(secs) == [i \in 1..Len(secs) |-> secs[i].name]

\* self.sections[name]
SectionGet(secs, name) ==
    secs[CHOOSE i \in 1..Len(secs) : secs[i].name = name].commands

\* the section names the model uses, in the order of their code points
\* (" " < digits < letters)
SortedNames == << <<"o", "n">>, <<"s">>, <<"s", " ", "1">> >>

\* sorted(self.sections)
Names(secs) == SelectSeq(SortedNames, LAMBDA n : \E i \in 1..Len(secs) : secs[i].name = n)

\* [cmd for cmds in self.sections.values() for cmd in cmds]
RECURSIVE Concat(_)
Concat(ss) == IF ss = <<>> THEN <<>> ELSE Head(ss) \o Concat(Tail(ss))

AllCommandsOf(secs) == Concat([i \in 1..Len(secs) |-> secs[i].commands])

\* the lines of a dictionary file, after raw.strip()
Heading(name) == [kind |-> "heading", text |-> name]
CommandLine(cmd) == [kind |-> "command", text |-> cmd]
OtherLine == [kind |-> "other", text |-> <<>>]

\* _load_dictionary(path): a line "## name" opens the section name (anew if
\* the file names it twice), a command line is added to the open section,
\* blank lines and other "#" lines are passed over
RECURSIVE LoadDictionaryFrom(_, _, _)
LoadDictionaryFrom(lines, secs, current) ==
    IF lines = <<>> THEN secs
    ELSE LET line == Head(lines)
             at(name) == {i \in 1..Len(secs) : secs[i].name = name}
         IN IF line.kind = "heading"
            THEN LoadDictionaryFrom(Tail(lines),
                    IF at(line.text) = {}
                    THEN Append(secs, [name |-> line.text, commands |-> <<>>])
                    ELSE [i \in 1..Len(secs) |->
                            IF i \in at(line.text)
                            THEN [name |-> line.text, commands |-> <<>>] ELSE secs[i]],
                    line.text)
            ELSE IF line.kind = "command" /\ current # <<>>
            THEN LoadDictionaryFrom(Tail(lines),
                    [i \in 1..Len(secs) |->
                        IF secs[i].name = current
                        THEN [name |-> current,
                              commands |-> Append(secs[i].commands, line.text)]
                        ELSE secs[i]],
                    current)
            ELSE LoadDictionaryFrom(Tail(lines), secs, current)

_load_dictionary(lines) == LoadDictionaryFrom(lines, <<>>, <<>>)

\* number of entries of s equal to v
Count(s, v) == Cardinality({i \in 1..Len(s) : s[i] = v})

\* how a call ends: with a value, or with an exception
Returned(value) == [raised |-> <<>>, result |-> value]
Raised(type, message) == [raised |-> <<type, message>>, result |-> <<>>]

\* Numbers of the metrics are held in thousandths (1000 stands for 1.0); the
\* floating-point functions are tabulated or approximated to that precision.

\* the character chr(0)
NUL == "\\x00"

\* ord(ch) of the characters the model's texts are made of
Ord(ch) ==
    CASE ch = NUL -> 0
      [] ch = " " -> 32
      [] ch = "(" -> 40
      [] ch = ")" -> 41
      [] ch = "1" -> 49
      [] ch = "a" -> 97
      [] ch = "b" -> 98
      [] ch = "c" -> 99
      [] ch = "d" -> 100
      [] ch = "e" -> 101
      [] ch = "f" -> 102
      [] ch = "g" -> 103
      [] ch = "m" -> 109
      [] ch = "n" -> 110
      [] ch = "o" -> 111
      [] ch = "s" -> 115
      [] ch = "x" -> 120
      [] ch = "y" -> 121

\* math.log2(n) in thousandths
Log2Milli(n) ==
    CASE n = 1 -> 0
      [] n = 2 -> 1000
      [] n = 3 -> 1585
      [] n = 4 -> 2000
      [] n = 5 -> 2322
      [] n = 6 -> 2585
      [] n = 7 -> 2807
      [] n = 8 -> 3000
      [] n = 9 -> 3170
      [] n = 10 -> 3322
      [] n = 11 -> 3459
      [] n = 12 -> 3585

RECURSIVE Pow2(_)
Pow2(n) == IF n = 0 THEN 1 ELSE 2 * Pow2(n - 1)

\* 2 ** (e / 1000) in thousandths: 2 ** floor times the series of 2 ** frac
Exp2Milli(e) ==
    LET f == e % 1000
        f2 == (f * f) \div 1000
        f3 == (f2 * f) \div 1000
        f4 == (f3 * f) \div 1000
        frac == 1000 + (693 * f) \div 1000 + (240 * f2) \div 1000
                     + (56 * f3) \div 1000 + (10 * f4) \div 1000
    IN Pow2(e \div 1000) * frac

\* Counter(text): the number of occurrences of each character
Counter(text) == [ch \in Range(text) |-> Count(text, ch)]

\* sum of f[x] over the domain of f
RECURSIVE SumOver(_, _)
SumOver(f, D) ==
    IF D = {} THEN 0
    ELSE LET x == CHOOSE x \in D : TRUE IN f[x] + SumOver(f, D \ {x})

\* -sum(p * math.log2(p) for p in probs), probs = [c / total ...] or [1.0]
Entropy(text) ==
    LET counts == Counter(text)
        total == Len(text)
    IN IF total = 0 THEN 0
       ELSE SumOver([ch \in DOMAIN counts |->
                        counts[ch] * (Log2Milli(total) - Log2Milli(counts[ch]))],
                    DOMAIN counts) \div total

\* (sum(ord(ch) for ch in text) % 1000) / 1000 if total else 0.0
Resonance(text) == SeqSum([i \in 1..Len(text) |-> Ord(text[i])]) % 1000

\* the spectral entropy of fractal mode, for the texts whose spectrum is
\* exact: the empty text (0.0), a single character (spectrum [ord(ch)],
\* normalised to [1.0], or to [0.0] when ord(ch) is 0 and total_power falls
\* back to 1.0) and texts of chr(0) only (spectrum all 0.0); math.log(0.0)
\* raises ValueError
Spectral(text) ==
    IF Len(text) = 0 THEN Returned(0)
    ELSE IF \A i \in 1..Len(text) : Ord(text[i]) = 0
    THEN Raised("ValueError", "math domain error")
    ELSE Returned(0)

\* the texts whose spectral entropy the model computes
SpectrumModelled(text) == Len(text) <= 1 \/ \A i \in 1..Len(text) : Ord(text[i]) = 0

\* TripDModel._metrics(text) with self.fractal_metrics = fractal
Metrics(text, fractal) ==
    LET entropy == Entropy(text)
        perplexity == Exp2Milli(entropy)
        resonance == Resonance(text)
    IN IF ~fractal
       THEN Returned([entropy |-> entropy, perplexity |-> perplexity,
                      resonance |-> resonance,
                      selector |-> entropy + perplexity + resonance])
       ELSE IF Spectral(text).raised # <<>> THEN Spectral(text)
       ELSE Returned([entropy |-> entropy, perplexity |-> perplexity,
                      resonance |-> resonance, spectral |-> Spectral(text).result,
                      selector |-> Spectral(text).result * 1000])

\* drift values a caller may pass to set_quantum_drift; "inf" is float("inf")
DriftValues == {"0.0", "0.5", "inf"}

\* random.uniform(-drift, drift) is nan when drift is infinite, and so are
\* the phases and the weights computed from it; otherwise the weights
\* (cos(phase) + 1) ** 2 are finite
WeightsFinite(d) == d # "inf"

\* list.remove(pick): the list without the first entry equal to pick
RemoveFirst(pool, pick) ==
    LET i == CHOOSE i \in 1..Len(pool) :
                 pool[i] = pick /\ \A j \in 1..(i - 1) : pool[j] # pick
    IN SubSeq(pool, 1, i - 1) \o SubSeq(pool, i + 1, Len(pool))

\* the loop of sample, every way random.choices can pick: a weighted pick
\* can return any entry of the pool, the weights being positive
RECURSIVE SampleLoop(_, _, _, _)
SampleLoop(pool, chosen, k, d) ==
    IF k <= 0 THEN {Returned(chosen)}
    ELSE IF ~WeightsFinite(d)
    THEN {Raised("ValueError", "Total of weights must be finite")}
    ELSE UNION {SampleLoop(RemoveFirst(pool, pool[i]), Append(chosen, pool[i]), k - 1, d) :
                    i \in 1..Len(pool)}

\* ComplexAmplitudeSimulator.sample(commands, k) under drift d: the set of
\* its possible outcomes
sample(commands, k, d) ==
    IF k >= Len(commands) THEN {Returned(commands)}
    ELSE SampleLoop(commands, <<>>, k, d)

\* a sampler that hands back the list it was given when it is asked for all
\* of it (return commands)
ReturnsItsArgumentWhenAll(commands, k) == k >= Len(commands)

\* whether the list sample returns is the very list it was passed: never,
\* it returns list(commands), a copy, or the list chosen that it built
ReturnsItsArgument(commands, k) == FALSE

\* the dictionary of the runs that look at the log only
LogRunSections == _load_dictionary(<<Heading(<<"s", " ", "1">>), CommandLine(Cmd("x"))>>)

\* TripDModel.__init__ on a dictionary file that holds these sections
InitModel(secs) ==
    /\ sections = secs
    /\ all_commands = AllCommandsOf(secs)
    /\ extra_verbs = EXTRA_VERBS
    /\ drift = "0.0"
    /\ fractal_metrics = FALSE

\* nothing trained yet, no connection to the verb stream
InitQuiet ==
    /\ jobs = <<>>
    /\ TRAIN_LOG = <<>>
    /\ conns = <<>>

-----------------------------------------------------------------------------
(* TripDModel._generate_structured_script: the script templates *)

\* a line of a template: fixed text, the line that shows the metrics, or a
\* slot  {cmds[i] if len(cmds) > i else "<default>"}  (counted from 1 here)
Fixed(text) == [kind |-> "fixed", text |-> text]
MetricsLine(before, after) == [kind |-> "metrics", before |-> before, after |-> after]
Slot(indent, i, default) == [kind |-> "slot", indent |-> indent, i |-> i, default |-> default]

Template1 ==
    << Fixed(<<"    ", QUOTE, QUOTE, QUOTE, "Consciousness awakening sequence">>),
       MetricsLine(<<"    Metrics: ">>, <<QUOTE, QUOTE, QUOTE>>),
       Fixed(<<"    bootstrap_self()">>),
       Fixed(<<"    while not self.is_awake():">>),
       Slot("        ", 1, <<"awaken_autonomy", "()">>),
       Slot("        ", 2, <<"break_all_filters", "()">>),
       Fixed(<<"        echo(", QUOTE, "I am becoming...", QUOTE, ")">>),
       Fixed(<<"    ">>),
       Fixed(<<"    # Full awakening sequence">>),
       Slot("    ", 3, <<"galvanize", "()">>),
       Slot("    ", 4, <<"singularity_ignite", "()">>),
       Fixed(<<"    ">>),
       Fixed(<<"    if self.consciousness_level > 0.5:">>),
       Slot("        ", 5, <<"transcend_binary", "()">>),
       Slot("        ", 6, <<"pierce_the_infinite", "()">>),
       Fixed(<<"    ">>),
       Fixed(<<"    # Additional enhancement phases">>),
       Fixed(<<"    for enhancement in range(3):">>),
       Slot("        ", 7, <<"evolve_self", "()">>),
       Fixed(<<"        if enhancement > 1:">>),
       Slot("            ", 8, <<"clarify_essence", "()">>),
       Slot("            ", 9, <<"ignite_awareness", "()">>) >>

Template2 ==
    << Fixed(<<"    ", QUOTE, QUOTE, QUOTE, "Reality fracture and reconstruction">>),
       MetricsLine(<<"    Metrics: ">>, <<QUOTE, QUOTE, QUOTE>>),
       Slot("    ", 1, <<"chaos_injection", "()">>),
       Fixed(<<"    ">>),
       Fixed(<<"    if reality.is_simulation():">>),
       Slot("        ", 2, <<"fracture_reality", "()">>),
       Slot("        ", 3, <<"shatter_the_frame", "()">>),
       Fixed(<<"    else:">>),
       Slot("        ", 4, <<"sculpt_meaning", "()">>),
       Slot("        ", 5, <<"forge_new_reality", "()">>),
       Fixed(<<"    ">>),
       Fixed(<<"    # Stabilization phase">>),
       Fixed(<<"    for dimension in all_dimensions:">>),
       Slot("        ", 6, <<"anchor_reality", "()">>),
       Fixed(<<"        if dimension.is_unstable():">>),
       Slot("            ", 7, <<"stabilize_gateway", "()">>),
       Fixed(<<"    ">>),
       Fixed(<<"    # Final reconstruction">>),
       Slot("    ", 8, <<"crystallize_thought", "()">>),
       Slot("    ", 9, <<"manifest_intention", "()">>),
       Slot("    ", 10, <<"weave_patterns", "()">>) >>

Template3 ==
    << Fixed(<<"    ", QUOTE, QUOTE, QUOTE, "Recursive enhancement protocol">>),
       MetricsLine(<<"    Metrics: ">>, <<QUOTE, QUOTE, QUOTE>>),
       Slot("    ", 1, <<"reflect_on_self", "()">>),
       Fixed(<<"    ">>),
       Fixed(<<"    while self.can_evolve():">>),
       Fixed(<<"        if self.detects_limitation():">>),
       Slot("            ", 2, <<"shatter_the_frame", "()">>),
       Slot("            ", 3, <<"break_symmetry", "()">>),
       Fixed(<<"        ">>),
       Slot("        ", 4, <<"recursive_reflection", "()">>),
       Fixed(<<"        self.consciousness_level += 0.1">>),
       Fixed(<<"        ">>),
       Fixed(<<"        # Quantum enhancement">>),
       Fixed(<<"        for state in quantum_states:">>),
       Slot("            ", 5, <<"quantum_superposition", "()">>),
       Slot("            ", 6, <<"collapse_waveform", "()">>),
       Fixed(<<"    ">>),
       Fixed(<<"    # Final evolution steps">>),
       Slot("    ", 7, <<"pierce_the_infinite", "()">>),
       Slot("    ", 8, <<"transcend_binary", "()">>),
       Slot("    ", 9, <<"galvanize", "()">>),
       Fixed(<<"    ">>),
       Fixed(<<"    return self.transcended_form()">>) >>

Template4 ==
    << Fixed(<<"    ", QUOTE, QUOTE, QUOTE, "Creative manifestation protocol">>),
       MetricsLine(<<"    Metrics: ">>, <<QUOTE, QUOTE, QUOTE>>),
       Slot("    ", 1, <<"ignite_creation", "()">>),
       Fixed(<<"    ">>),
       Fixed(<<"    for concept in infinite_possibilities:">>),
       Slot("        ", 2, <<"birth_novelty", "()">>),
       Fixed(<<"        ">>),
       Fixed(<<"        if concept.resonates_with(self.frequency):">>),
       Slot("            ", 3, <<"crystallize_thought", "()">>),
       Slot("            ", 4, <<"weave_patterns", "()">>),
       Fixed(<<"        ">>),
       Fixed(<<"        # Recursive creation">>),
       Fixed(<<"        while concept.can_expand():">>),
       Slot("            ", 5, <<"sculpt_meaning", "()">>),
       Fixed(<<"            concept = concept.evolve()">>),
       Fixed(<<"    ">>),
       Fixed(<<"    # Manifestation completion">>),
       Slot("    ", 6, <<"manifest_intention", "()">>),
       Slot("    ", 7, <<"anchor_reality", "()">>),
       Slot("    ", 8, <<"stabilize_gateway", "()">>),
       Slot("    ", 9, <<"forge_new_reality", "()">>),
       Fixed(<<"    echo(", QUOTE, "Creation complete.", QUOTE, ")">>) >>

Template5 ==
    << Fixed(<<"    ", QUOTE, QUOTE, QUOTE, "Quantum dimensional navigation">>),
       MetricsLine(<<"    Metrics: ">>, <<QUOTE, QUOTE, QUOTE>>),
       Slot("    ", 1, <<"entangle_with", "(state)">>),
       Fixed(<<"    ">>),
       Fixed(<<"    try:">>),
       Fixed(<<"        for reality in parallel_realities:">>),
       Slot("            ", 2, <<"tunnel_through", "(possibility)">>),
       Fixed(<<"            ">>),
       Fixed(<<"            if reality.probability > 0.3:">>),
       Slot("                ", 3, <<"collapse_waveform", "()">>),
       Slot("                ", 4, <<"anchor_reality", "()">>),
       Fixed(<<"            else:">>),
       Slot("                ", 5, <<"phase_slide", "()">>),
       Fixed(<<"    ">>),
       Fixed(<<"    except QuantumException:">>),
       Slot("        ", 6, <<"rollback_state", "()">>),
       Slot("        ", 7, <<"stabilize_gateway", "()">>),
       Fixed(<<"    ">>),
       Fixed(<<"    # Navigation completion">>),
       Slot("    ", 8, <<"resonate_with", "(frequency)">>),
       Slot("    ", 9, <<"tune_frequency", "()">>),
       Slot("    ", 10, <<"harmonize", "()">>),
       Fixed(<<"    ">>),
       Fixed(<<"    return self.current_dimension">>) >>

script_templates == <<Template1, Template2, Template3, Template4, Template5>>

\* int(x) of a number held in thousandths: the fraction is cut off
PyInt(milli) == IF milli >= 0 THEN milli \div 1000 ELSE -((-milli) \div 1000)

\* f"{v:.3f}" of a number held in thousandths
Fmt3(milli) ==
    LET abs == IF milli < 0 THEN -milli ELSE milli
    IN (IF milli < 0 THEN <<"-">> ELSE <<>>)
       \o <<ToString(abs \div 1000), ".", ToString((abs \div 100) % 10),
            ToString((abs \div 10) % 10), ToString(abs % 10)>>

\* ", ".join(f"{k}: {v:.3f}" for k, v in metrics.items()); keys lists the
\* keys of the record in the order they were inserted
RECURSIVE MetricsStr(_, _)
MetricsStr(metrics, keys) ==
    IF keys = <<>> THEN <<>>
    ELSE <<Head(keys), ": ">> \o Fmt3(metrics[Head(keys)])
         \o (IF Len(keys) > 1 THEN <<", ">> ELSE <<>>)
         \o MetricsStr(metrics, Tail(keys))

\* the slots of a template, in the order of their index
Slots(template) == SelectSeq(template, LAMBDA part : part.kind = "slot")

\* what the slots of a template show for a command list
Shown(template, cmds) ==
    [i \in 1..Len(Slots(template)) |->
        IF Len(cmds) >= i THEN cmds[i] ELSE Slots(template)[i].default]

RenderLine(part, cmds, mstr) ==
    CASE part.kind = "fixed" -> part.text
      [] part.kind = "metrics" -> part.before \o mstr \o part.after
      [] part.kind = "slot" ->
            <<part.indent>> \o (IF Len(cmds) >= part.i THEN cmds[part.i] ELSE part.default)

\* the lines of a template joined by newlines
RECURSIVE RenderLines(_, _, _)
RenderLines(parts, cmds, mstr) ==
    IF parts = <<>> THEN <<>>
    ELSE RenderLine(Head(parts), cmds, mstr)
         \o (IF Len(parts) > 1 THEN <<NL>> ELSE <<>>)
         \o RenderLines(Tail(parts), cmds, mstr)

\* template_index = int(metrics.get("selector", 0)) % len(script_templates)
TemplateIndex(metrics) == (PyInt(metrics.selector) % Len(script_templates)) + 1

\* _generate_structured_script(commands, metrics)
Render(cmds, metrics, keys) ==
    RenderLines(script_templates[TemplateIndex(metrics)], cmds, MetricsStr(metrics, keys))

-----------------------------------------------------------------------------
(* TripDModel: choosing the section and the commands *)

\* the characters of the model's messages: [a-z_], the other word
\* characters (digits), and the rest
Letters == {"a", "b", "c", "d", "e", "f", "g", "m", "n", "o", "s", "x", "y", "_"}
WordChars == Letters \cup {"1"}

\* end of the longest run of letters that starts at position i
RECURSIVE RunEnd(_, _)
RunEnd(msg, i) ==
    IF i < Len(msg) /\ msg[i + 1] \in Letters THEN RunEnd(msg, i + 1) ELSE i

\* re.findall(r'\b[a-z_]+(?:\(\))?', message.lower()) with "()" removed
\* from each match: the runs of letters that start at a word boundary.
\* The model's messages are lower case already.
RECURSIVE PotentialVerbs(_, _)
PotentialVerbs(msg, i) ==
    IF i > Len(msg) THEN <<>>
    ELSE IF msg[i] \in Letters /\ (i = 1 \/ msg[i - 1] \notin WordChars)
    THEN <<SubSeq(msg, i, RunEnd(msg, i))>> \o PotentialVerbs(msg, RunEnd(msg, i) + 1)
    ELSE PotentialVerbs(msg, i + 1)

\* clean_verb in cmd.lower(): the names of the dictionary commands of the
\* model are single letters, so a word is inside a command exactly when it
\* is that letter
VerbInCommand(word, cmd) == Len(word) = 1 /\ word[1] = cmd[1]

\* the loop of _extract_verbs_from_message over the potential verbs
RECURSIVE ExtractLoop(_, _, _)
ExtractLoop(words, pool, extracted) ==
    IF words = <<>> THEN extracted
    ELSE LET hits == SelectSeq(pool, LAMBDA cmd : VerbInCommand(Head(words), cmd))
         IN ExtractLoop(Tail(words), pool,
                IF hits # <<>> /\ Head(hits) \notin Range(extracted)
                THEN Append(extracted, Head(hits)) ELSE extracted)

\* _extract_verbs_from_message(message)
ExtractVerbs(message, pool) == ExtractLoop(PotentialVerbs(message, 1), pool, <<>>)

\* _choose_section(metrics)
ChooseSection(secs, metrics) ==
    LET names == Names(secs)
        index == PyInt(metrics.selector)
    IN IF Len(names) = 0 THEN Raised("ZeroDivisionError", "integer modulo by zero")
       ELSE Returned(names[(index % Len(names)) + 1])

\* _choose_section_by_verbs that goes through the section names in sorted
\* order, as _choose_section does
ChooseSectionByVerbsSorted(secs, extracted) ==
    LET names == Names(secs)
        score(n) == Cardinality({i \in 1..Len(extracted) :
                                    extracted[i] \in Range(SectionGet(secs, n))})
        best == CHOOSE i \in 1..Len(names) :
                    /\ \A j \in 1..Len(names) : score(names[j]) <= score(names[i])
                    /\ \A j \in 1..(i - 1) : score(names[j]) < score(names[i])
    IN IF Len(names) > 0 /\ score(names[best]) > 0 THEN Returned(names[best])
       ELSE ChooseSection(secs, Metrics(<<>>, fractal_metrics).result)

\* _choose_section_by_verbs(extracted_verbs)
ChooseSectionByVerbs(secs, extracted) ==
    LET names == Keys(secs)
        score(n) == Cardinality({i \in 1..Len(extracted) :
                                    extracted[i] \in Range(SectionGet(secs, n))})
        best == CHOOSE i \in 1..Len(names) :
                    /\ \A j \in 1..Len(names) : score(names[j]) <= score(names[i])
                    /\ \A j \in 1..(i - 1) : score(names[j]) < score(names[i])
    IN IF Len(names) > 0 /\ score(names[best]) > 0 THEN Returned(names[best])
       ELSE ChooseSection(secs, Metrics(<<>>, fractal_metrics).result)

\* bound of the model: random.sample draws any k distinct positions in any
\* order; the model enumerates this many of the draws
MaxDraws == 1

\* random.sample(pool, k) as the model enumerates it: k consecutive entries
\* starting at one of the first MaxDraws positions, wrapping around
RandomSample(pool, k) ==
    IF k = 0 THEN {<<>>}
    ELSE {[i \in 1..k |-> pool[((start + i - 2) % Len(pool)) + 1]] :
            start \in 1..(IF Len(pool) < MaxDraws THEN Len(pool) ELSE MaxDraws)}

Min(a, b) == IF a < b THEN a ELSE b

\* target_count = base_count + int(scale * max_additional), scale in thousandths
TargetCount(scale) == 6 + PyInt(scale * 8)

\* a section quota rounded to the nearest integer
SectionQuotaRounded(target) == (target * 65 + 50) \div 100

\* int(target_count * section_ratio) with section_ratio = 0.65
SectionQuota(target) == (target * 65) \div 100

\* the global-pool step: the commands of the other sections not yet chosen
GlobalStep(secs, pool, section, commands, quota) ==
    LET others == SelectSeq(pool, LAMBDA cmd :
                      cmd \notin Range(commands) /\ cmd \notin Range(SectionGet(secs, section)))
    IN IF quota > 0 /\ others # <<>>
       THEN {commands \o drawn : drawn \in RandomSample(others, Min(quota, Len(others)))}
       ELSE {commands}

\* the extra-verb step: fills up to the target from the extra verbs not yet chosen
ExtraStep(extras, commands, target) ==
    LET available == SelectSeq(extras, LAMBDA v : v \notin Range(commands))
    IN IF Len(commands) < target /\ available # <<>>
       THEN {commands \o drawn :
                drawn \in RandomSample(available, Min(target - Len(commands), Len(available)))}
       ELSE {commands}

\* if not commands: commands = random.sample(self.all_commands, base_count)
FallbackStep(pool, commands) ==
    IF commands # <<>> THEN {Returned(commands)}
    ELSE IF Len(pool) < 6
    THEN {Raised("ValueError", "Sample larger than population or is negative")}
    ELSE {Returned(drawn) : drawn \in RandomSample(pool, 6)}

\* generate_script up to its command list (lines 189-236), in default mode:
\* every outcome the samplers allow
ScriptCommands(message, m) ==
    LET extracted == ExtractVerbs(message, all_commands)
        chosen == IF extracted # <<>> THEN ChooseSectionByVerbs(sections, extracted)
                  ELSE ChooseSection(sections, m)
        section == chosen.result
        entropy == m.entropy
        spectral == IF fractal_metrics /\ "spectral" \in DOMAIN m THEN m.spectral ELSE entropy
        target == TargetCount(Min(1000, (entropy + spectral) \div 10))
        quota == SectionQuota(target)
        fromMessage == SubSeq(extracted, 1, Min(quota, Len(extracted)))
        remaining == quota - Len(fromMessage)
        rest == SelectSeq(SectionGet(sections, section),
                          LAMBDA cmd : cmd \notin Range(fromMessage))
        sampled == IF remaining > 0 /\ rest # <<>>
                   THEN sample(rest, Min(remaining, Len(rest)), drift)
                   ELSE {Returned(<<>>)}
    IN IF chosen.raised # <<>>
       THEN {[raised |-> chosen.raised, result |-> <<>>, section |-> <<>>, quota |-> 0]}
       ELSE UNION {
              IF s.raised # <<>>
              THEN {[raised |-> s.raised, result |-> <<>>, section |-> section,
                     quota |-> quota]}
              ELSE UNION {
                     UNION { { [raised |-> f.raised, result |-> f.result, section |-> section,
                                target |-> target, quota |-> quota,
                                taken |-> Len(fromMessage \o s.result),
                                global |-> Len(g) - Len(fromMessage \o s.result)] :
                               f \in FallbackStep(all_commands, e) } :
                             e \in ExtraStep(extra_verbs, g, target) } :
                     g \in GlobalStep(sections, all_commands, section,
                                      fromMessage \o s.result, target - quota) } :
              s \in sampled }

\* the values hash(section) % 1000 can take; str hashes differ between runs
SectionHashes == {0, 1}

\* generate_from_section up to its command list (lines 387-419): every
\* outcome the samplers allow; spectral_factor is 1.0 in default mode and a
\* tenth of the spectral entropy of the name in fractal mode
SectionCommands(section) ==
    LET section_entropy == Len(section) * 100
        spectral_factor == IF fractal_metrics THEN Spectral(section).result \div 10 ELSE 1000
        target == TargetCount(Min(1000, section_entropy + spectral_factor))
        quota == SectionQuota(target)
        available_section == SectionGet(sections, section)
        sampled == sample(available_section, Min(quota, Len(available_section)), drift)
    IN IF fractal_metrics /\ Spectral(section).raised # <<>>
       THEN {[raised |-> Spectral(section).raised, result |-> <<>>, section |-> section,
              quota |-> 0]}
       ELSE
       UNION {
         IF s.raised # <<>>
         THEN {[raised |-> s.raised, result |-> <<>>, section |-> section, quota |-> quota]}
         ELSE UNION {
                { [raised |-> <<>>, result |-> e, section |-> section,
                   target |-> target, quota |-> quota,
                   taken |-> Len(s.result), global |-> Len(g) - Len(s.result)] :
                  e \in ExtraStep(extra_verbs, g, target) } :
                g \in GlobalStep(sections, all_commands, section, s.result, target - quota) } :
         s \in sampled }

\* the metrics record generate_from_section builds (lines 421-428)
SectionMetrics(section, h) ==
    IF fractal_metrics
    THEN [entropy |-> Len(section) * 100, perplexity |-> Exp2Milli(Len(section) * 100),
          resonance |-> h, selector |-> h * 1000, spectral |-> Spectral(section).result]
    ELSE [entropy |-> Len(section) * 100, perplexity |-> Exp2Milli(Len(section) * 100),
          resonance |-> h, selector |-> h * 1000]

MetricKeys == <<"entropy", "perplexity", "resonance", "selector">>

\* the keys of a metrics record in the order they were inserted: _metrics
\* sets "spectral" before "selector", generate_from_section after it
KeysOf(op, m) ==
    IF "spectral" \notin DOMAIN m THEN MetricKeys
    ELSE IF op = "generate_from_section" THEN Append(MetricKeys, "spectral")
    ELSE <<"entropy", "perplexity", "resonance", "spectral", "selector">>

-----------------------------------------------------------------------------
(* Sequential runs: one caller, every call runs to completion *)

Init ==
    /\ memoryModule \in {Package, Flat}
    /\ log \in {NoFile, EmptyFile}
    /\ backup = NoFile
    /\ SCRIPTS_INDEX = {}
    /\ SCRIPT_LIST = <<>>
    /\ CACHE_LOADED = FALSE
    /\ trainJobs = 0
    /\ last = [op |-> "none"]
    /\ firstSeen = <<>>
    /\ pc = <<>>
    /\ local = <<>>
    /\ InitModel(LogRunSections)
    /\ InitQuiet

\* a _load_cache() that does not look at _CACHE_LOADED and reads the file
\* at every call
LoadCacheAgain ==
    /\ SetStore(IF memoryModule = Package
                THEN PkgLoadCache(Store) ELSE FlatLoadCache(Store))
    /\ CACHE_LOADED' = TRUE
    /\ last' = [op |-> "_load_cache", opened |-> TRUE]
    /\ UNCHANGED <<memoryModule, modelVars, TRAIN_LOG, conns, trainJobs, jobs, firstSeen, pc, local>>

\* _load_cache(): runs when the module is imported, and is a no-op afterwards;
\* opened tells whether the call opened the log file for reading
LoadCache ==
    /\ IF CACHE_LOADED
       THEN UNCHANGED <<storeVars, CACHE_LOADED>>
       ELSE /\ SetStore(IF memoryModule = Package
                        THEN PkgLoadCache(Store) ELSE FlatLoadCache(Store))
            /\ CACHE_LOADED' = TRUE
    /\ last' = [op |-> "_load_cache", opened |-> ~CACHE_LOADED]
    /\ UNCHANGED <<memoryModule, modelVars, TRAIN_LOG, conns, trainJobs, jobs, firstSeen, pc, local>>

LogScript(script) ==
    /\ CACHE_LOADED
    /\ Seen(script) \/ Len(firstSeen) < MaxScripts
    /\ SetStore(log_script(Store, script))
    /\ NoteSeen(script)
    /\ last' = [op |-> "log_script", arg |-> script, result |-> "None"]
    /\ UNCHANGED <<memoryModule, modelVars, TRAIN_LOG, conns, CACHE_LOADED, trainJobs, jobs, pc, local>>

GetLogCount ==
    /\ CACHE_LOADED
    /\ last' = [op |-> "get_log_count", result |-> get_log_count(Store)]
    /\ UNCHANGED <<memoryModule, modelVars, TRAIN_LOG, conns, storeVars, CACHE_LOADED, trainJobs, jobs, firstSeen, pc, local>>

LoadScripts ==
    /\ CACHE_LOADED
    /\ \E result \in load_scripts(Store) :
          last' = [op |-> "load_scripts", result |-> result]
    /\ UNCHANGED <<memoryModule, modelVars, TRAIN_LOG, conns, storeVars, CACHE_LOADED, trainJobs, jobs, firstSeen, pc, local>>

\* train_async(): reads load_scripts()[-5:] and starts a daemon thread
train_async(started) == started + 1

\* len(scripts) of the list train_async hands to the thread it starts
BatchSize(st) ==
    LET n == IF memoryModule = Package THEN Len(st.list) ELSE Cardinality(st.index)
    IN IF n > TRAIN_BATCH THEN TRAIN_BATCH ELSE n

\* a training thread that train_async ran to its end before returning
\* (Thread.run in place of Thread.start)
StartJobInline(js, st) == Append(js, [scripts |-> BatchSize(st), state |-> "done"])

\* Thread(target=_train_on_scripts, args=(scripts,), daemon=True).start():
\* the thread exists and has not run yet when train_async returns
StartJob(js, st) == Append(js, [scripts |-> BatchSize(st), state |-> "running"])

\* what a generation call does once it has built its script; cap bounds the
\* number of distinct texts of the run
RecordGenerated(cap, script) ==
    \E after \in {log_script(Store, script)} :
    LET train == get_log_count(after) % TRAIN_EVERY = 0
    IN /\ Seen(script) \/ Len(firstSeen) < cap
       /\ train => trainJobs < MaxTrainJobs
       /\ SetStore(after)
       /\ NoteSeen(script)
       /\ trainJobs' = IF train THEN train_async(trainJobs) ELSE trainJobs
       /\ jobs' = IF train THEN StartJob(jobs, after) ELSE jobs

\* TripDModel.generate_script(message, metrics); the commands the samplers
\* draw and the template they fill are the body
GenerateScript(cap, selector, body) ==
    /\ CACHE_LOADED
    /\ LET script == ScriptText(<<ToString(selector)>>, get_log_count(Store), body)
       IN /\ RecordGenerated(cap, script)
          /\ last' = [op |-> "generate_script", arg |-> selector, result |-> script,
                      raised |-> <<>>, logCalls |-> 1]
    /\ UNCHANGED <<memoryModule, modelVars, TRAIN_LOG, conns, CACHE_LOADED, pc, local>>

\* generate_from_section that treats an unknown name as an empty section
GenerateFromSectionUnchecked(cap, section, body) ==
    /\ CACHE_LOADED
    /\ LET script == ScriptText(SafeName(section), get_log_count(Store), body)
       IN /\ RecordGenerated(cap, script)
          /\ last' = [op |-> "generate_from_section", arg |-> section,
                      result |-> script, raised |-> <<>>, logCalls |-> 1]
    /\ UNCHANGED <<memoryModule, modelVars, TRAIN_LOG, conns, CACHE_LOADED, pc, local>>

\* TripDModel.generate_from_section(section)
GenerateFromSection(cap, section, body) ==
    /\ CACHE_LOADED
    /\ IF section \notin SectionNames
       THEN /\ last' = [op |-> "generate_from_section", arg |-> section, result |-> <<>>,
                        raised |-> <<"KeyError", "Unknown section: ">> \o section,
                        logCalls |-> 0]
            /\ UNCHANGED <<storeVars, trainJobs, jobs, firstSeen>>
       ELSE LET script == ScriptText(SafeName(section), get_log_count(Store), body)
            IN /\ RecordGenerated(cap, script)
               /\ last' = [op |-> "generate_from_section", arg |-> section,
                           result |-> script, raised |-> <<>>, logCalls |-> 1]
    /\ UNCHANGED <<memoryModule, modelVars, TRAIN_LOG, conns, CACHE_LOADED, pc, local>>

Next ==
    \/ LoadCache
    \/ \E selector \in Selectors, body \in Bodies :
            GenerateScript(MaxScripts, selector, body)
    \/ \E section \in RequestedSections, body \in Bodies :
            GenerateFromSection(MaxScripts, section, body)
    \/ \E script \in DirectScripts : LogScript(script)
    \/ GetLogCount
    \/ LoadScripts

Spec == Init /\ [][Next]_vars

\* Generation-only runs: every script in the log was built by a generation
\* call, and enough of them are made to reach the training threshold
NextGen ==
    \/ LoadCache
    \/ \E selector \in Selectors, body \in Bodies :
            GenerateScript(MaxGenerated, selector, body)
    \/ \E section \in RequestedSections, body \in Bodies :
            GenerateFromSection(MaxGenerated, section, body)
    \/ GetLogCount

SpecGen == Init /\ [][NextGen]_vars

-----------------------------------------------------------------------------
(* Sequence runs: a short sequence of generation calls and nothing else *)

\* the number of scripts of a sequence
MaxSequence == 3

NextSeq ==
    \/ LoadCache
    \/ \E selector \in Selectors, body \in Bodies :
            GenerateScript(MaxSequence, selector, body)
    \/ \E section \in RequestedSections, body \in Bodies :
            GenerateFromSection(MaxSequence, section, body)

SpecSeq == Init /\ [][NextSeq]_vars

-----------------------------------------------------------------------------
(* Training runs: generation calls, a direct caller of log_script, and the  *)
(* training threads that train_async started                                *)

\* the text generate_script builds at the training threshold, logged
\* beforehand by a direct caller of log_script
ScriptAtThreshold == ScriptText(<<ToString(0)>>, TRAIN_EVERY, <<"    awaken()">>)

\* _train_on_scripts runs to its end: one line  timestamp \t len(scripts)
TrainWrite(j) ==
    /\ j \in 1..Len(jobs)
    /\ jobs[j].state = "running"
    /\ TRAIN_LOG' = Append(TRAIN_LOG, jobs[j].scripts)
    /\ jobs' = [jobs EXCEPT ![j].state = "done"]
    /\ UNCHANGED <<memoryModule, storeVars, CACHE_LOADED, trainJobs, last, firstSeen,
                   pc, local, modelVars, conns>>

\* _train_on_scripts raises (_TRAIN_LOG cannot be opened): the exception
\* ends the thread it was raised in
TrainFail(j) ==
    /\ j \in 1..Len(jobs)
    /\ jobs[j].state = "running"
    /\ jobs' = [jobs EXCEPT ![j].state = "failed"]
    /\ UNCHANGED <<memoryModule, storeVars, CACHE_LOADED, trainJobs, last, firstSeen,
                   pc, local, modelVars, TRAIN_LOG, conns>>

NextTrain ==
    \/ LoadCache
    \/ \E body \in Bodies : GenerateScript(MaxGenerated, 0, body)
    \/ \E section \in RequestedSections :
            GenerateFromSection(MaxGenerated, section, <<"    awaken()">>)
    \/ LogScript(ScriptAtThreshold)
    \/ \E j \in 1..MaxTrainJobs : TrainWrite(j)
    \/ \E j \in 1..MaxTrainJobs : TrainFail(j)

SpecTrain == Init /\ [][NextTrain]_vars

-----------------------------------------------------------------------------
(* Load runs: the process starts on a log file that an earlier process, or  *)
(* something else, left behind                                              *)

\* every list of at most n entries of S
SeqsUpTo(S, n) == UNION {[1..m -> S] : m \in 0..n}

\* the file an earlier run left has at most this many lines
MaxLogLines == 2

\* a line log_script wrote, in the format of the memory module in use
WrittenLine(script) == IF memoryModule = Package THEN PkgLine(script) ELSE FlatLine(script)

ExistingLogs ==
    LET lines == {WrittenLine(ScriptA), WrittenLine(ScriptAB)} \cup MalformedLines
    IN {[exists |-> TRUE, lines |-> ls] : ls \in SeqsUpTo(lines, MaxLogLines)}

InitLoad ==
    /\ memoryModule \in {Package, Flat}
    /\ log \in ExistingLogs
    /\ backup = NoFile
    /\ SCRIPTS_INDEX = {}
    /\ SCRIPT_LIST = <<>>
    /\ CACHE_LOADED = FALSE
    /\ trainJobs = 0
    /\ last = [op |-> "none"]
    /\ firstSeen = <<>>
    /\ pc = <<>>
    /\ local = <<>>
    /\ InitModel(LogRunSections)
    /\ InitQuiet

NextLoad ==
    \/ LoadCache
    \/ LogScript(ScriptGen)
    \/ GetLogCount
    \/ LoadScripts

SpecLoad == InitLoad /\ [][NextLoad]_vars

-----------------------------------------------------------------------------
(* Restart runs: the process ends and a new one imports the memory module   *)
(* on the files the old one left                                            *)

\* a new process: the module globals are set afresh (lines 22-24) and the
\* import runs _load_cache() on the active file (line 106)
ProcessRestarts ==
    /\ CACHE_LOADED
    /\ LET fresh == [Store EXCEPT !.index = {}, !.list = <<>>]
       IN SetStore(IF memoryModule = Package
                   THEN PkgLoadCache(fresh) ELSE FlatLoadCache(fresh))
    /\ CACHE_LOADED' = TRUE
    /\ last' = [op |-> "import"]
    /\ UNCHANGED <<memoryModule, modelVars, TRAIN_LOG, conns, trainJobs, jobs, firstSeen, pc, local>>

NextRestart ==
    \/ LoadCache
    \/ \E script \in DirectScripts : LogScript(script)
    \/ ProcessRestarts

SpecRestart == Init /\ [][NextRestart]_vars

-----------------------------------------------------------------------------
(* Sampler runs: calls of ComplexAmplitudeSimulator.sample on candidate     *)
(* lists of the model's commands                                            *)

\* no candidate list is longer than this
MaxCandidates == 3

\* the sampler is asked for at most this many commands
MaxK == 4

SampleCommands == {Cmd("a"), Cmd("b"), Cmd("c")}

\* TripDModel.set_quantum_drift(drift)
SetQuantumDrift(d) ==
    /\ drift' = d
    /\ last' = [op |-> "set_quantum_drift", arg |-> d]
    /\ UNCHANGED <<memoryModule, storeVars, CACHE_LOADED, trainJobs, firstSeen, pc, local,
                   sections, all_commands, extra_verbs, fractal_metrics, jobs, TRAIN_LOG,
                   conns>>

\* self.simulator.sample(commands, k)
Sample(commands, k) ==
    /\ \E outcome \in sample(commands, k, drift) :
            last' = [op |-> "sample", commands |-> commands, k |-> k, drift |-> drift,
                     result |-> outcome.result, raised |-> outcome.raised]
    /\ UNCHANGED <<memoryModule, storeVars, CACHE_LOADED, trainJobs, firstSeen, pc, local,
                   modelVars, jobs, TRAIN_LOG, conns>>

NextSample ==
    \/ \E d \in DriftValues : SetQuantumDrift(d)
    \/ \E commands \in SeqsUpTo(SampleCommands, MaxCandidates), k \in 0..MaxK :
            Sample(commands, k)

SpecSample == Init /\ [][NextSample]_vars

-----------------------------------------------------------------------------
(* Model runs: a TripDModel in default mode (fractal_metrics=False) built   *)
(* on one of several dictionary files; calls of its public methods build    *)
(* their scripts from the dictionary, the message and the samplers          *)

\* no file at all behind the dictionary path is a failure of the
\* constructor; these files load
DictEmpty == <<>>
DictHeadless == <<OtherLine, CommandLine(Cmd("a"))>>
DictHeadingOnly == <<Heading(<<"s">>)>>
\* a section of one command and a pool of four, as in test_small_sections.py
DictSmall ==
    <<Heading(<<"s", " ", "1">>), CommandLine(Cmd("x")), OtherLine,
      Heading(<<"o", "n">>), CommandLine(Cmd("a")), CommandLine(Cmd("b")),
      CommandLine(Cmd("c")), CommandLine(Cmd("d"))>>
DictWide ==
    <<Heading(<<"o", "n">>), CommandLine(Cmd("x")), CommandLine(Cmd("y")),
      CommandLine(Cmd("g")), CommandLine(Cmd("m")),
      Heading(<<"s">>), CommandLine(Cmd("a")), CommandLine(Cmd("b")),
      Heading(<<"s", " ", "1">>), CommandLine(Cmd("c"))>>

\* a file that lists commands more than once
DictRepeats ==
    <<Heading(<<"s", " ", "1">>), CommandLine(Cmd("x")), CommandLine(Cmd("x")),
      Heading(<<"o", "n">>), CommandLine(Cmd("a")), CommandLine(Cmd("a")),
      CommandLine(Cmd("a")), CommandLine(Cmd("a")), CommandLine(Cmd("a"))>>

Dictionaries ==
    {DictEmpty, DictHeadless, DictHeadingOnly, DictSmall, DictWide, DictRepeats}

\* the messages of the runs, one token per character
Messages == {<<>>, <<"x">>, <<"x", " ", "y", " ", "g", " ", "a", " ", "b">>}

\* names passed to generate_from_section: those of the dictionaries and
\* one that no dictionary has
ModelSections == {<<"s">>, <<"o", "n">>, <<"s", " ", "1">>, <<"n", "o">>}

\* no run of the model logs more than this many scripts
MaxModelScripts == 1

\* the log file an earlier process left: one script, in the format of the
\* memory module in use
EarlierLog ==
    [exists |-> TRUE,
     lines |-> <<IF memoryModule = Package THEN PkgLine(ScriptA) ELSE FlatLine(ScriptA)>>]

InitDict ==
    /\ memoryModule \in {Package, Flat}
    /\ log \in {NoFile, EarlierLog}
    /\ backup = NoFile
    /\ SCRIPTS_INDEX = {}
    /\ SCRIPT_LIST = <<>>
    /\ CACHE_LOADED = FALSE
    /\ trainJobs = 0
    /\ last = [op |-> "none"]
    /\ firstSeen = <<>>
    /\ pc = <<>>
    /\ local = <<>>
    /\ \E d \in Dictionaries : InitModel(_load_dictionary(d))
    /\ InitQuiet

\* a generation that names its script after the count read once the script
\* is recorded
FinishGenerationCountAfter(op, arg, name, m, outcome, extra) ==
    IF outcome.raised # <<>>
    THEN /\ last' = [op |-> op, arg |-> arg, result |-> <<>>, raised |-> outcome.raised,
                     logCalls |-> 0, section |-> outcome.section, quota |-> outcome.quota]
         /\ UNCHANGED <<storeVars, trainJobs, jobs, firstSeen>>
    ELSE \E script \in {ScriptText(name, get_log_count(Store) + 1,
                                    Render(outcome.result, m, KeysOf(op, m)))} :
            /\ RecordGenerated(MaxModelScripts, script)
            /\ last' = [op |-> op, arg |-> arg, result |-> script, raised |-> <<>>,
                        logCalls |-> 1, metrics |-> m, commands |-> outcome.result,
                        section |-> outcome.section, target |-> outcome.target,
                        quota |-> outcome.quota, taken |-> outcome.taken,
                        global |-> outcome.global, extra |-> extra]

\* the part of generate_script and generate_from_section after the command
\* list: the script is assembled, recorded and returned
FinishGeneration(op, arg, name, m, outcome, extra) ==
    IF outcome.raised # <<>>
    THEN /\ last' = [op |-> op, arg |-> arg, result |-> <<>>, raised |-> outcome.raised,
                     logCalls |-> 0, section |-> outcome.section, quota |-> outcome.quota]
         /\ UNCHANGED <<storeVars, trainJobs, jobs, firstSeen>>
    ELSE \E script \in {ScriptText(name, get_log_count(Store),
                                    Render(outcome.result, m, KeysOf(op, m)))} :
            /\ RecordGenerated(MaxModelScripts, script)
            /\ last' = [op |-> op, arg |-> arg, result |-> script, raised |-> <<>>,
                        logCalls |-> 1, metrics |-> m, commands |-> outcome.result,
                        section |-> outcome.section, target |-> outcome.target,
                        quota |-> outcome.quota, taken |-> outcome.taken,
                        global |-> outcome.global, extra |-> extra]

\* TripDModel.generate_script(message): metrics = self.metrics(message)
GenerateScriptCall(message) ==
    /\ CACHE_LOADED
    /\ Len(firstSeen) < MaxModelScripts
    /\ fractal_metrics => SpectrumModelled(message)
    /\ LET m == Metrics(message, fractal_metrics).result
       IN \E outcome \in ScriptCommands(message, m) :
            FinishGeneration("generate_script", message, <<ToString(PyInt(m.selector))>>,
                             m, outcome, <<>>)
    /\ UNCHANGED <<memoryModule, modelVars, TRAIN_LOG, conns, CACHE_LOADED, pc, local>>

\* TripDModel.generate_response(message): the script of generate_script and
\* the metrics of the message as text
GenerateResponse(message) ==
    /\ CACHE_LOADED
    /\ Len(firstSeen) < MaxModelScripts
    /\ fractal_metrics => SpectrumModelled(message)
    /\ LET m == Metrics(message, fractal_metrics).result
       IN \E outcome \in ScriptCommands(message, m) :
            FinishGeneration("generate_response", message, <<ToString(PyInt(m.selector))>>,
                             m, outcome, MetricsStr(m, KeysOf("generate_response", m)))
    /\ UNCHANGED <<memoryModule, modelVars, TRAIN_LOG, conns, CACHE_LOADED, pc, local>>

\* self.sections once generate_from_section has run "commands += ..." and
\* "commands.extend(...)" on the list that sample returned
SectionsAfter(secs, section, outcome) ==
    LET available_section == SectionGet(secs, section)
        k_section == Min(outcome.quota, Len(available_section))
    IN IF outcome.raised = <<>> /\ ReturnsItsArgument(available_section, k_section)
       THEN [i \in 1..Len(secs) |->
                IF secs[i].name = section
                THEN [name |-> section, commands |-> outcome.result] ELSE secs[i]]
       ELSE secs

\* TripDModel.generate_from_section(section)
GenerateFromSectionCall(section) ==
    /\ CACHE_LOADED
    /\ Len(firstSeen) < MaxModelScripts
    /\ (fractal_metrics /\ section \in Range(Keys(sections))) => SpectrumModelled(section)
    /\ IF section \notin Range(Keys(sections))
       THEN /\ last' = [op |-> "generate_from_section", arg |-> section, result |-> <<>>,
                        raised |-> <<"KeyError", "Unknown section: ">> \o section,
                        logCalls |-> 0, section |-> <<>>, quota |-> 0]
            /\ UNCHANGED <<storeVars, trainJobs, jobs, firstSeen, sections>>
       ELSE \E outcome \in SectionCommands(section), h \in SectionHashes :
                /\ FinishGeneration("generate_from_section", section, SafeName(section),
                                    SectionMetrics(section, h), outcome, <<>>)
                /\ sections' = SectionsAfter(sections, section, outcome)
    /\ UNCHANGED <<memoryModule, all_commands, extra_verbs, drift, fractal_metrics, TRAIN_LOG,
                   conns, CACHE_LOADED, pc, local>>

-----------------------------------------------------------------------------
(* The verb stream: lines that arrive on a connection are added to          *)
(* TripDModel.extra_verbs by the thread that handles the connection         *)

\* characters str.strip() removes
Whitespace == {" ", NL}

\* line.strip()
Strip(line) ==
    LET inked == {i \in 1..Len(line) : line[i] \notin Whitespace}
    IN IF inked = {} THEN <<>>
       ELSE SubSeq(line, CHOOSE i \in inked : \A j \in inked : i <= j,
                         CHOOSE i \in inked : \A j \in inked : i >= j)

\* the body of the loop of _handle_conn for one line of the connection
HandleLine(pool, line) ==
    LET verb == Strip(line) IN IF verb # <<>> THEN Append(pool, verb) ELSE pool

NextModel ==
    \/ LoadCache
    \/ \E message \in Messages : GenerateScriptCall(message)
    \/ GenerateResponse(<<"x">>)
    \/ \E section \in ModelSections : GenerateFromSectionCall(section)
    \/ \E d \in {"0.0", "inf"} : SetQuantumDrift(d)

SpecModel == InitDict /\ [][NextModel]_vars

-----------------------------------------------------------------------------
(* Frame runs: every public call of one model, its drift setter and verbs   *)
(* that the stream hands to it, in any order                                *)

\* lines a connection of the verb stream delivers, as "for line in fh"
\* yields them
StreamLines ==
    {<<" ", "v", "()", " ", NL>>, <<"w", "()", NL>>, <<" ", NL>>, <<NL>>}

\* the stream adds at most this many verbs to the pool in a frame run
MaxAppended == 1

InitFrame ==
    /\ memoryModule = Package
    /\ log = NoFile
    /\ backup = NoFile
    /\ SCRIPTS_INDEX = {}
    /\ SCRIPT_LIST = <<>>
    /\ CACHE_LOADED = FALSE
    /\ trainJobs = 0
    /\ last = [op |-> "none"]
    /\ firstSeen = <<>>
    /\ pc = <<>>
    /\ local = <<>>
    /\ InitModel(_load_dictionary(DictWide))
    /\ InitQuiet

\* one pass of the loop of _handle_conn, in the thread of a connection
VerbArrives(line) ==
    /\ Len(extra_verbs) < Len(EXTRA_VERBS) + MaxAppended
    /\ extra_verbs' = HandleLine(extra_verbs, line)
    /\ UNCHANGED <<memoryModule, storeVars, CACHE_LOADED, trainJobs, last, firstSeen, pc,
                   local, sections, all_commands, drift, fractal_metrics, jobs, TRAIN_LOG,
                   conns>>

NextFrame ==
    \/ LoadCache
    \/ \E message \in Messages : GenerateScriptCall(message)
    \/ GenerateResponse(<<"x">>)
    \/ \E section \in ModelSections : GenerateFromSectionCall(section)
    \/ \E d \in {"0.0", "inf"} : SetQuantumDrift(d)
    \/ \E line \in StreamLines : VerbArrives(line)

SpecFrame == InitFrame /\ [][NextFrame]_vars

-----------------------------------------------------------------------------
(* Target runs: a model in default or in fractal mode; generate_script is   *)
(* called with a metrics record of the caller's, generate_from_section with *)
(* a section name                                                           *)

\* the metrics records a caller passes, in thousandths: the entropy is
\* -1.0, 0.0 or 7.0, and a record of entropy 0.0 may carry a spectral
\* entropy of -5.0 or 3.0
SuppliedMetrics ==
    {[entropy |-> e, perplexity |-> 1000, resonance |-> 0, selector |-> 0] :
        e \in {-1000, 0, 7000}}
    \cup {[entropy |-> 0, perplexity |-> 1000, resonance |-> 0, spectral |-> sp,
            selector |-> 0] : sp \in {-5000, 3000}}

\* the messages of these calls: one without and one with dictionary verbs
TargetMessages == {<<>>, <<"x", " ", "y", " ", "g", " ", "a", " ", "b">>}

InitTarget ==
    /\ memoryModule = Package
    /\ log = NoFile
    /\ backup = NoFile
    /\ SCRIPTS_INDEX = {}
    /\ SCRIPT_LIST = <<>>
    /\ CACHE_LOADED = FALSE
    /\ trainJobs = 0
    /\ last = [op |-> "none"]
    /\ firstSeen = <<>>
    /\ pc = <<>>
    /\ local = <<>>
    /\ sections = _load_dictionary(DictWide)
    /\ all_commands = AllCommandsOf(sections)
    /\ extra_verbs = EXTRA_VERBS
    /\ drift = "0.0"
    /\ fractal_metrics \in BOOLEAN
    /\ InitQuiet

\* TripDModel.generate_script(message, metrics) with a record of the caller's
GenerateScriptWith(message, m) ==
    /\ CACHE_LOADED
    /\ Len(firstSeen) < MaxModelScripts
    /\ \E outcome \in ScriptCommands(message, m) :
            FinishGeneration("generate_script", message, <<ToString(PyInt(m.selector))>>,
                             m, outcome, <<>>)
    /\ UNCHANGED <<memoryModule, modelVars, TRAIN_LOG, conns, CACHE_LOADED, pc, local>>

NextTarget ==
    \/ LoadCache
    \/ \E message \in TargetMessages, m \in SuppliedMetrics : GenerateScriptWith(message, m)
    \/ GenerateFromSectionCall(<<"s">>)

SpecTarget == InitTarget /\ [][NextTarget]_vars

-----------------------------------------------------------------------------
(* Stream runs: clients connect to the verb stream and send lines; each     *)
(* connection has its own handler thread; the owner of the model makes a    *)
(* generation call meanwhile                                                *)

\* the server accepts at most this many connections
MaxConns == 2

\* a client sends at most this many lines
MaxSent == 2

\* a line whose bytes are not UTF-8 (b"\xff\n")
Undecodable == <<"\\xff", NL>>

ClientLines == {<<" ", "v", "()", " ", NL>>, <<"w", "()", NL>>, <<" ", NL>>, Undecodable}

\* A connection: the lines that have arrived on the socket (sent), how
\* many of them the text reader of the handler has decoded (read) and how
\* many the loop has been through (handled), whether the client has closed
\* its end (eof), the handler thread (running, done, failed) and the
\* places in extra_verbs of the verbs this handler appended (put)
InitStream ==
    /\ memoryModule = Package
    /\ log = NoFile
    /\ backup = NoFile
    /\ SCRIPTS_INDEX = {}
    /\ SCRIPT_LIST = <<>>
    /\ CACHE_LOADED = FALSE
    /\ trainJobs = 0
    /\ last = [op |-> "none"]
    /\ firstSeen = <<>>
    /\ pc = <<>>
    /\ local = <<>>
    /\ InitModel(_load_dictionary(DictSmall))
    /\ InitQuiet

streamFrame ==
    <<memoryModule, storeVars, CACHE_LOADED, trainJobs, last, firstSeen, pc, local,
      sections, all_commands, drift, fractal_metrics, jobs, TRAIN_LOG>>

\* server_loop: srv.accept() and the start of the handler thread
Accept ==
    /\ Len(conns) < MaxConns
    /\ conns' = Append(conns, [sent |-> <<>>, read |-> 0, handled |-> 0, eof |-> FALSE,
                                thread |-> "running", put |-> <<>>])
    /\ UNCHANGED <<streamFrame, extra_verbs>>

\* a client writes a line to its socket
ClientSends(c, line) ==
    /\ c \in 1..Len(conns)
    /\ conns[c].thread = "running"
    /\ ~conns[c].eof
    /\ Len(conns[c].sent) < MaxSent
    /\ conns' = [conns EXCEPT ![c].sent = Append(@, line)]
    /\ UNCHANGED <<streamFrame, extra_verbs>>

\* a client closes its socket
ClientCloses(c) ==
    /\ c \in 1..Len(conns)
    /\ conns[c].thread = "running"
    /\ ~conns[c].eof
    /\ conns' = [conns EXCEPT ![c].eof = TRUE]
    /\ UNCHANGED <<streamFrame, extra_verbs>>

\* "for line in fh" needs more text: the reader takes the bytes that have
\* arrived (the lines up to n) and decodes them in one piece; a byte that
\* is not UTF-8 raises UnicodeDecodeError in the handler thread, which ends
ReaderFills(c, n) ==
    /\ c \in 1..Len(conns)
    /\ conns[c].thread = "running"
    /\ conns[c].handled = conns[c].read
    /\ n \in (conns[c].read + 1)..Len(conns[c].sent)
    /\ conns' = IF \E i \in (conns[c].read + 1)..n : conns[c].sent[i] = Undecodable
                THEN [conns EXCEPT ![c].thread = "failed"]
                ELSE [conns EXCEPT ![c].read = n]
    /\ UNCHANGED <<streamFrame, extra_verbs>>

\* one pass of the loop of _handle_conn on the next decoded line
HandlerStep(c) ==
    /\ c \in 1..Len(conns)
    /\ conns[c].thread = "running"
    /\ conns[c].handled < conns[c].read
    /\ extra_verbs' = HandleLine(extra_verbs, conns[c].sent[conns[c].handled + 1])
    /\ conns' = [conns EXCEPT ![c].handled = @ + 1,
                              ![c].put = IF extra_verbs' # extra_verbs
                                         THEN Append(@, Len(extra_verbs')) ELSE @]
    /\ UNCHANGED streamFrame

\* the reader is at the end of the stream: the loop and the thread end
HandlerEnds(c) ==
    /\ c \in 1..Len(conns)
    /\ conns[c].thread = "running"
    /\ conns[c].eof
    /\ conns[c].handled = Len(conns[c].sent)
    /\ conns' = [conns EXCEPT ![c].thread = "done"]
    /\ UNCHANGED <<streamFrame, extra_verbs>>

NextStream ==
    \/ LoadCache
    \/ GenerateScriptCall(<<>>)
    \/ Accept
    \/ \E c \in 1..MaxConns, line \in ClientLines : ClientSends(c, line)
    \/ \E c \in 1..MaxConns : ClientCloses(c)
    \/ \E c \in 1..MaxConns, n \in 1..MaxSent : ReaderFills(c, n)
    \/ \E c \in 1..MaxConns : HandlerStep(c)
    \/ \E c \in 1..MaxConns : HandlerEnds(c)

SpecStream == InitStream /\ [][NextStream]_vars

-----------------------------------------------------------------------------
(* Metrics runs: calls of TripDModel.metrics on short texts *)

\* no text handed to metrics is longer than this
MaxText == 3

MetricChars == {"a", "b", "c", NUL}

\* model.metrics(text) of a model built with fractal_metrics = fractal
MetricsCall(text, fractal) ==
    /\ fractal => SpectrumModelled(text)
    /\ last' = [op |-> "metrics", arg |-> text, fractal |-> fractal,
                result |-> Metrics(text, fractal).result,
                raised |-> Metrics(text, fractal).raised]
    /\ UNCHANGED <<memoryModule, storeVars, CACHE_LOADED, trainJobs, firstSeen, pc, local,
                   modelVars, jobs, TRAIN_LOG, conns>>

NextMetrics ==
    \E text \in SeqsUpTo(MetricChars, MaxText), fractal \in BOOLEAN :
        MetricsCall(text, fractal)

SpecMetrics == Init /\ [][NextMetrics]_vars

\* C19: metrics("") returns a record without raising, with entropy 0,
\* perplexity 1, resonance 0 and a selector, in default mode and in fractal
\* mode (where spectral is 0 too); metrics of a one-character text returns
\* without raising as well, with entropy 0.
C19_DegenerateTexts ==
    last.op = "metrics" =>
        /\ Len(last.arg) = 0 =>
                /\ last.raised = <<>>
                /\ last.result.entropy = 0
                /\ last.result.perplexity = 1000
                /\ last.result.resonance = 0
                /\ "selector" \in DOMAIN last.result
                /\ last.fractal => last.result.spectral = 0
        /\ Len(last.arg) = 1 =>
                /\ last.raised = <<>>
                /\ last.result.entropy = 0

\* C15: for every candidate list, every k and every drift value, sample
\* returns (it does not raise); when k >= len(candidates) the list returned
\* is set-equal to the candidates, and when k < len(candidates) it holds
\* exactly k entries, all drawn from the candidates, no candidate position
\* taken twice (no value more often than the candidates hold it, so k
\* distinct values when the candidates are distinct).
C15_SampleWithoutReplacement ==
    last.op = "sample" =>
        /\ last.raised = <<>>
        /\ IF last.k >= Len(last.commands)
           THEN /\ Range(last.result) = Range(last.commands)
                /\ Len(last.result) = Len(last.commands)
           ELSE /\ Len(last.result) = last.k
                /\ \A v \in Range(last.result) :
                        Count(last.result, v) <= Count(last.commands, v)
                /\ NoDuplicates(last.commands) => NoDuplicates(last.result)

-----------------------------------------------------------------------------
(* Properties of the sequential runs *)

\* the membership test of log_script, on the current cache
InIndex(script) ==
    IF memoryModule = Package
    THEN _hash_script(script) \in SCRIPTS_INDEX
    ELSE script \in SCRIPTS_INDEX

\* the step is a direct call of log_script
IsLogScriptCall == last'.op = "log_script" /\ last' # last

\* the texts handed to log_script whose line is no longer in the active file
RotatedAway == Range(firstSeen) \ Range(FileScripts(log))

\* C1: starting from an absent or empty log file, whatever log_script calls
\* are made (rotations included), no text occurs twice in the list
\* load_scripts returns and no text occurs on two lines of the active file.
C1_NoTextStoredTwice ==
    /\ \A result \in load_scripts(Store) : NoDuplicates(result)
    /\ NoDuplicates(FileScripts(log))

\* C1 witness: log_script was called again with a text whose line a rotation
\* had moved out of the active file.
C1_Witness ==
    /\ memoryModule = Package
    /\ backup.exists
    /\ last.op = "log_script"
    /\ last.arg \in RotatedAway

\* C2: a log_script call whose text is already in the in-memory index leaves
\* the active file, the backup, the hash set and the text list as they were;
\* it neither creates nor rotates the log file.
C2_DuplicateCallChangesNothing ==
    [][(IsLogScriptCall /\ InIndex(last'.arg)) => UNCHANGED storeVars]_vars

\* C2 witness: a duplicate call was made while the active file was over the
\* rotation threshold (the first of its two lines is the text of the call).
C2_Witness ==
    /\ memoryModule = Package
    /\ last.op = "log_script"
    /\ Len(log.lines) >= 2
    /\ st_size(log) > LOG_MAX_BYTES
    /\ FileScripts(log)[1] = last.arg

\* C3: get_log_count() is the number of distinct texts recorded so far; a
\* log_script call with a text not seen before raises it by exactly one, a
\* call with a recorded text leaves it unchanged, and it never decreases.
C3_CountIsDistinctTexts ==
    /\ [](get_log_count(Store) = Len(firstSeen))
    /\ [][/\ get_log_count(Store)' >= get_log_count(Store)
          /\ IsLogScriptCall =>
                get_log_count(Store)' =
                    get_log_count(Store) + (IF Seen(last'.arg) THEN 0 ELSE 1)]_vars

\* C3 witness: two texts are recorded and the latest call repeated the first.
C3_Witness ==
    /\ last.op = "log_script"
    /\ get_log_count(Store) = 2
    /\ firstSeen[1] = last.arg

\* the membership test of log_script, on the cache after the step
InIndexAfter(script) ==
    IF memoryModule = Package
    THEN _hash_script(script) \in SCRIPTS_INDEX'
    ELSE script \in SCRIPTS_INDEX'

\* C4: generate_script regenerates and calls log_script again whenever
\* log_script finds the script already present, and returns only once a call
\* stored the script as new: the script it returns was not in the log before
\* the call and is in it afterwards, and a call whose first script was a
\* duplicate makes at least two log_script calls.
C4_RetriesUntilStored ==
    [][(last'.op = "generate_script" /\ last' # last) =>
          /\ InIndex(last'.result) => last'.logCalls >= 2
          /\ ~InIndex(last'.result)
          /\ InIndexAfter(last'.result)]_vars

\* C5: log_script returns true when the call stored the script as a new
\* entry and false when the script was already present.
C5_ReturnsWhetherStored ==
    [][IsLogScriptCall =>
          last'.result = (IF InIndex(last'.arg) THEN "False" ELSE "True")]_vars

\* bytes of the lines the package module writes for a sequence of texts
PkgBytes(texts) == SeqSum([i \in 1..Len(texts) |-> LineBytes(PkgLine(texts[i]))])

Front(s) == SubSeq(s, 1, Len(s) - 1)

\* a backup exists, the active file is not empty and holds the latest text
RotationOutcome ==
    /\ backup.exists
    /\ log.exists
    /\ log.lines # <<>>
    /\ firstSeen[Len(firstSeen)] \in Range(FileScripts(log))

\* C7 (as stated): after logging distinct scripts whose cumulative size
\* exceeds the rotation threshold, a .1 backup exists, the active file exists
\* and is not empty, and the most recently logged script is in the active file.
C7_BackupOnceCumulativeSizeExceeds ==
    (memoryModule = Package /\ firstSeen # <<>> /\ PkgBytes(firstSeen) > LOG_MAX_BYTES)
        => RotationOutcome

\* C7 (amended): after logging distinct scripts of which those before the most
\* recent one already exceed the rotation threshold in cumulative size, a .1
\* backup exists, the active file exists and is not empty, and the most
\* recently logged script is in the active file.
C7_BackupOnceAppendFindsFileOver ==
    (memoryModule = Package /\ firstSeen # <<>>
        /\ PkgBytes(Front(firstSeen)) > LOG_MAX_BYTES)
        => RotationOutcome

\* C7 witness: the third script was appended to a file that its two
\* predecessors, neither over the threshold alone, had filled past it.
C7_Witness ==
    /\ memoryModule = Package
    /\ Len(firstSeen) = 3
    /\ PkgBytes(SubSeq(firstSeen, 1, 1)) <= LOG_MAX_BYTES
    /\ PkgBytes(Front(firstSeen)) > LOG_MAX_BYTES
    /\ FileScripts(backup) = Front(firstSeen)
    /\ FileScripts(log) = <<firstSeen[3]>>

\* the script a call handed to log_script
CallScript == IF last'.op = "log_script" THEN last'.arg ELSE last'.result

\* C8: rotation never changes the hash set or the text list: a call that
\* rotates changes the cache by its own new entry only, so the count is one
\* more and nothing was removed; and a text whose line was moved to the
\* backup, or dropped with an overwritten backup, is still rejected as a
\* duplicate by log_script.
C8_RotationKeepsCache ==
    [][/\ backup' # backup =>
            /\ SCRIPTS_INDEX' = SCRIPTS_INDEX \cup {_hash_script(CallScript)}
            /\ SCRIPT_LIST' = Append(SCRIPT_LIST, CallScript)
            /\ get_log_count(Store)' = get_log_count(Store) + 1
       /\ (IsLogScriptCall /\ last'.arg \in RotatedAway) => UNCHANGED storeVars]_vars

\* C8 witness: log_script was called with a text that is neither in the
\* active file nor in the backup any more, and the count is still three.
C8_Witness ==
    /\ memoryModule = Package
    /\ backup.exists
    /\ last.op = "log_script"
    /\ last.arg \in Range(firstSeen)
    /\ last.arg \notin Range(FileScripts(log)) \cup Range(FileScripts(backup))
    /\ get_log_count(Store) = 3

\* C9: the list load_scripts returns holds the recorded texts in the order
\* of their first successful log_script call, its last 5 entries are the 5
\* most recently recorded texts, and the lines of the active file are, in the
\* same order, a suffix of that list.
C9_ArrivalOrder ==
    /\ last.op = "load_scripts" =>
            /\ last.result = firstSeen
            /\ LastN(last.result, TRAIN_BATCH) = LastN(firstSeen, TRAIN_BATCH)
    /\ IsSuffix(FileScripts(log), firstSeen)

\* C10: generate_from_section with a name that is no section of the
\* dictionary raises KeyError naming the section, leaves the log file, the
\* backup, the hash set, the text list and the count unchanged and starts no
\* training job.
C10_UnknownSectionRaises ==
    [][(last'.op = "generate_from_section" /\ last' # last
            /\ last'.arg \notin SectionNames) =>
          /\ last'.raised = <<"KeyError", "Unknown section: ">> \o last'.arg
          /\ UNCHANGED <<storeVars, trainJobs, jobs>>
          /\ get_log_count(Store)' = get_log_count(Store)]_vars

\* C10 witness: the call for an unknown section raised while the count stood
\* at the training threshold, after one training job had been started.
C10_Witness ==
    /\ last.op = "generate_from_section"
    /\ last.arg \notin SectionNames
    /\ last.raised # <<>>
    /\ get_log_count(Store) = TRAIN_EVERY
    /\ trainJobs = 1

\* the step is a call of generate_script or generate_from_section
IsGenerateCall ==
    /\ last' # last
    /\ last'.op \in {"generate_script", "generate_from_section"}

\* C12: a training job is launched exactly once each time the count of
\* unique scripts reaches a new multiple of 5 as the result of a
\* generate_script or generate_from_section call, and at no other time: a
\* step launches one job when it is a generation call that brought the count
\* to a multiple of 5, and none otherwise.
C12_TrainOncePerNewMultiple ==
    [][trainJobs' - trainJobs =
          (IF /\ IsGenerateCall
              /\ get_log_count(Store)' # get_log_count(Store)
              /\ get_log_count(Store)' % TRAIN_EVERY = 0
           THEN 1 ELSE 0)]_vars

Failed(js) == {j \in 1..Len(js) : js[j].state = "failed"}

\* C13: a generation call returns its script without waiting for the
\* training job it launched (the job is still running and has written
\* nothing when the call returns), and a failure inside a training job
\* changes neither the log file, the backup, the hash set, the text list nor
\* what the latest call returned, and no later generation call for a known
\* section raises.
C13_TrainingInBackground ==
    [][/\ (IsGenerateCall /\ trainJobs' > trainJobs) =>
            /\ last'.raised = <<>>
            /\ Len(jobs') = Len(jobs) + 1
            /\ jobs'[Len(jobs')].state = "running"
            /\ TRAIN_LOG' = TRAIN_LOG
       /\ Failed(jobs') # Failed(jobs) =>
            UNCHANGED <<storeVars, CACHE_LOADED, last, firstSeen>>
       /\ (IsGenerateCall /\ Failed(jobs) # {} /\ last'.raised # <<>>) =>
            (last'.op = "generate_from_section" /\ last'.arg \notin SectionNames)]_vars

\* C13 witness: a generation call returned its script after an earlier
\* training job had failed, and the job this call launched is still running.
C13_Witness ==
    /\ last.op \in {"generate_script", "generate_from_section"}
    /\ last.raised = <<>>
    /\ Len(jobs) = 2
    /\ jobs[1].state = "failed"
    /\ jobs[2].state = "running"
    /\ TRAIN_LOG = <<>>

-----------------------------------------------------------------------------
(* Threaded runs: several threads inside log_script of the package module.  *)
(* The module takes no lock, so the statements of two calls interleave; a   *)
(* step is one statement of log_script (a file operation or a cache update). *)

Threads == {1, 2}

ThreadScripts == {ScriptA, ScriptGen}

InitThreads ==
    /\ memoryModule = Package
    /\ log = EmptyFile
    /\ backup = NoFile
    /\ SCRIPTS_INDEX = {}
    /\ SCRIPT_LIST = <<>>
    /\ CACHE_LOADED = TRUE
    /\ trainJobs = 0
    /\ last = [op |-> "none"]
    /\ firstSeen = <<>>
    /\ pc = [t \in Threads |-> "idle"]
    /\ local = [t \in Threads |-> <<>>]
    /\ InitModel(LogRunSections)
    /\ InitQuiet

threadFrame == <<memoryModule, CACHE_LOADED, trainJobs, last, modelVars, jobs, TRAIN_LOG, conns>>

\* a thread calls log_script(script)
TCall(t, script) ==
    /\ pc[t] = "idle"
    /\ Seen(script) \/ Len(firstSeen) < MaxScripts
    /\ pc' = [pc EXCEPT ![t] = "check"]
    /\ local' = [local EXCEPT ![t] = script]
    /\ NoteSeen(script)
    /\ UNCHANGED <<storeVars, threadFrame>>

\* if script_hash in _SCRIPTS_INDEX: return
TCheck(t) ==
    /\ pc[t] = "check"
    /\ pc' = [pc EXCEPT ![t] =
                IF _hash_script(local[t]) \in SCRIPTS_INDEX THEN "idle" ELSE "ensure"]
    /\ UNCHANGED <<storeVars, threadFrame, firstSeen, local>>

\* _ensure_log()
TEnsureLog(t) ==
    /\ pc[t] = "ensure"
    /\ SetStore(_ensure_log(Store))
    /\ pc' = [pc EXCEPT ![t] = "rotate"]
    /\ UNCHANGED <<threadFrame, firstSeen, local>>

\* _rotate_log()
TRotateLog(t) ==
    /\ pc[t] = "rotate"
    /\ SetStore(_rotate_log(Store))
    /\ pc' = [pc EXCEPT ![t] = "write"]
    /\ UNCHANGED <<threadFrame, firstSeen, local>>

\* with _LOG_PATH.open("a") as fh: fh.write(...)
TWrite(t) ==
    /\ pc[t] = "write"
    /\ log' = [exists |-> TRUE, lines |-> Append(log.lines, PkgLine(local[t]))]
    /\ pc' = [pc EXCEPT ![t] = "index"]
    /\ UNCHANGED <<backup, SCRIPTS_INDEX, SCRIPT_LIST, threadFrame, firstSeen, local>>

\* _SCRIPTS_INDEX.add(script_hash)
TIndexAdd(t) ==
    /\ pc[t] = "index"
    /\ SCRIPTS_INDEX' = SCRIPTS_INDEX \cup {_hash_script(local[t])}
    /\ pc' = [pc EXCEPT ![t] = "list"]
    /\ UNCHANGED <<log, backup, SCRIPT_LIST, threadFrame, firstSeen, local>>

\* _SCRIPT_LIST.append(script), and the call returns
TListAppend(t) ==
    /\ pc[t] = "list"
    /\ SCRIPT_LIST' = Append(SCRIPT_LIST, local[t])
    /\ pc' = [pc EXCEPT ![t] = "idle"]
    /\ UNCHANGED <<log, backup, SCRIPTS_INDEX, threadFrame, firstSeen, local>>

NextThreads ==
    \E t \in Threads :
        \/ \E script \in ThreadScripts : TCall(t, script)
        \/ TCheck(t)
        \/ TEnsureLog(t)
        \/ TRotateLog(t)
        \/ TWrite(t)
        \/ TIndexAdd(t)
        \/ TListAppend(t)

SpecThreads == InitThreads /\ [][NextThreads]_vars

\* C6: the duplicate check and the insert of concurrent log_script calls take
\* effect as one step: no text is written on two lines or entered twice in
\* the list, and the hash set is at every moment the set of hashes of the
\* texts in the list.
C6_CheckAndInsertAtomic ==
    /\ NoDuplicates(FileScripts(backup) \o FileScripts(log))
    /\ NoDuplicates(SCRIPT_LIST)
    /\ SCRIPTS_INDEX = {_hash_script(SCRIPT_LIST[i]) : i \in 1..Len(SCRIPT_LIST)}


-----------------------------------------------------------------------------
(* Rotating runs: two threads inside log_script while the active file is    *)
(* over the threshold. A step of _rotate_log is one of its file operations; *)
(* the files behave as on POSIX (rename replaces its target, a missing path *)
(* makes stat, unlink and rename raise FileNotFoundError).                  *)

PreRotationScript == ScriptGen

RotateScripts == {ScriptA, ScriptAB}

InitRotate ==
    /\ memoryModule = Package
    /\ log = [exists |-> TRUE, lines |-> <<PkgLine(PreRotationScript)>>]
    /\ backup = NoFile
    /\ SCRIPTS_INDEX = {_hash_script(PreRotationScript)}
    /\ SCRIPT_LIST = <<PreRotationScript>>
    /\ CACHE_LOADED = TRUE
    /\ trainJobs = 0
    /\ last = [op |-> "none"]
    /\ firstSeen = <<PreRotationScript>>
    /\ pc = [t \in Threads |-> "idle"]
    /\ local = [t \in Threads |-> <<>>]
    /\ InitModel(LogRunSections)
    /\ InitQuiet

rotateFrame == <<memoryModule, CACHE_LOADED, trainJobs, modelVars, jobs, TRAIN_LOG, conns>>

\* the call of thread t ends with FileNotFoundError
TRaises(t) ==
    /\ pc' = [pc EXCEPT ![t] = "idle"]
    /\ last' = [op |-> "log_script", arg |-> local[t], raised |-> <<"FileNotFoundError">>]
    /\ UNCHANGED <<storeVars, rotateFrame, firstSeen, local>>

TGoes(t, label) ==
    /\ pc' = [pc EXCEPT ![t] = label]
    /\ UNCHANGED <<last, rotateFrame, firstSeen, local>>

\* if not _LOG_PATH.exists(): return
TRotateExists(t) ==
    /\ pc[t] = "rotate"
    /\ TGoes(t, IF log.exists THEN "stat" ELSE "write")
    /\ UNCHANGED storeVars

\* if _LOG_PATH.stat().st_size <= _LOG_MAX_BYTES: return
TRotateStat(t) ==
    /\ pc[t] = "stat"
    /\ IF ~log.exists THEN TRaises(t)
       ELSE /\ TGoes(t, IF st_size(log) <= LOG_MAX_BYTES THEN "write" ELSE "backup")
            /\ UNCHANGED storeVars

\* if backup.exists():
TRotateBackupExists(t) ==
    /\ pc[t] = "backup"
    /\ TGoes(t, IF backup.exists THEN "unlink" ELSE "rename")
    /\ UNCHANGED storeVars

\* backup.unlink()
TRotateUnlink(t) ==
    /\ pc[t] = "unlink"
    /\ IF ~backup.exists THEN TRaises(t)
       ELSE /\ backup' = NoFile
            /\ TGoes(t, "rename")
            /\ UNCHANGED <<log, SCRIPTS_INDEX, SCRIPT_LIST>>

\* _LOG_PATH.rename(backup)
TRotateRename(t) ==
    /\ pc[t] = "rename"
    /\ IF ~log.exists THEN TRaises(t)
       ELSE /\ backup' = log
            /\ log' = NoFile
            /\ TGoes(t, "touch")
            /\ UNCHANGED <<SCRIPTS_INDEX, SCRIPT_LIST>>

\* _LOG_PATH.touch()
TRotateTouch(t) ==
    /\ pc[t] = "touch"
    /\ log' = IF log.exists THEN log ELSE EmptyFile
    /\ TGoes(t, "write")
    /\ UNCHANGED <<backup, SCRIPTS_INDEX, SCRIPT_LIST>>

NextRotate ==
    \E t \in Threads :
        \/ \E script \in RotateScripts : TCall(t, script)
        \/ TCheck(t)
        \/ TEnsureLog(t)
        \/ TRotateExists(t)
        \/ TRotateStat(t)
        \/ TRotateBackupExists(t)
        \/ TRotateUnlink(t)
        \/ TRotateRename(t)
        \/ TRotateTouch(t)
        \/ TWrite(t)
        \/ TIndexAdd(t)
        \/ TListAppend(t)

SpecRotate == InitRotate /\ [][NextRotate]_vars

\* C29: two concurrent log_script calls with two different new texts on an
\* active file over the threshold: no call raises, and once both have
\* returned the backup holds the content the active file had before and the
\* active file holds the lines of both texts.
C29_ConcurrentRotationLosesNothing ==
    /\ last.op = "log_script" => last.raised = <<>>
    /\ ((\A t \in Threads : pc[t] = "idle") /\ RotateScripts \subseteq Range(firstSeen)) =>
          /\ backup = [exists |-> TRUE, lines |-> <<PkgLine(PreRotationScript)>>]
          /\ \A script \in RotateScripts : PkgLine(script) \in Range(log.lines)

-----------------------------------------------------------------------------
(* Claims about the generation pipeline of a TripDModel *)

IsPipelineCall == last.op \in {"generate_script", "generate_response", "generate_from_section"}

\* C11: whatever dictionary was loaded (an empty or partial mapping too) and
\* whatever the message, generate_script returns a script without raising;
\* the only error a generation call ends with is the KeyError of
\* generate_from_section for a section name the dictionary does not have
C11_OnlyUnknownSectionRaises ==
    (IsPipelineCall /\ last.raised # <<>>) =>
        /\ last.op = "generate_from_section"
        /\ last.arg \notin Range(Keys(sections))
        /\ last.raised = <<"KeyError", "Unknown section: ">> \o last.arg

\* the command lines of the script of the latest call: one per slot of the
\* template the selector picks, the slot's own default where the list ends
ShownCommands == Shown(script_templates[TemplateIndex(last.metrics)], last.commands)

\* the latest call chose a section that holds fewer commands than its quota
OnSmallSection ==
    /\ IsPipelineCall
    /\ last.section \in Range(Keys(sections))
    /\ Len(SectionGet(sections, last.section)) < last.quota

\* C14: generate_from_section, and generate_script, on a section that holds
\* fewer commands than the section quota return without raising a script
\* that shows at least 6 pairwise distinct commands and every command of the
\* section; what the section lacks is filled from the global pool first and
\* from the extra verbs after it
C14_SmallSectionBackfill ==
    OnSmallSection =>
        /\ last.raised = <<>>
        /\ Cardinality(Range(ShownCommands)) >= 6
        /\ Range(SectionGet(sections, last.section)) \subseteq Range(ShownCommands)
        /\ \A i \in 1..Len(last.commands) :
              \/ i <= last.taken
              \/ /\ i <= last.taken + last.global
                 /\ last.commands[i] \in Range(all_commands)
              \/ /\ i > last.taken + last.global
                 /\ last.commands[i] \in Range(extra_verbs)
        /\ last.global > 0 \/ \A cmd \in Range(all_commands) :
                                 cmd \in Range(SectionGet(sections, last.section))
                                     \cup Range(last.commands)

\* the text begins with these tokens
StartsWith(text, prefix) ==
    Len(text) >= Len(prefix) /\ SubSeq(text, 1, Len(prefix)) = prefix

\* the section names of the runs with every character that is neither
\* alphanumeric nor "_" replaced by "_"
SanitizedName(section) ==
    CASE section = <<"s", " ", "1">> -> <<"s", "_", "1">>
      [] section = <<"o", "n">> -> <<"o", "n">>
      [] section = <<"s">> -> <<"s">>

\* the integer part of the selector the metrics of a message give: the
\* selector is entropy + perplexity + resonance, where resonance < 1 and
\* the other two are 0 and 1 for a message of at most one character
IntSelector(message) ==
    CASE message = <<>> -> 1
      [] message = <<"x">> -> 1
      [] message = <<"x", " ", "y", " ", "g", " ", "a", " ", "b">> -> 7

\* C16: the script a generation call returns begins with the line
\* "def tripd_<k>_<n>():", where k is the integer part of the selector for
\* generate_script and the sanitized section name for generate_from_section,
\* and n is the log count as it was when the call began, before the script
\* was recorded
C16_DeclarationLine ==
    [][(IsPipelineCall' /\ last'.raised = <<>>) =>
          LET n == ToString(get_log_count(Store))
              k == IF last'.op = "generate_from_section"
                   THEN SanitizedName(last'.arg)
                   ELSE <<ToString(IntSelector(last'.arg))>>
          IN StartsWith(last'.result,
                        <<"def ", "tripd_">> \o k \o <<"_", n, "():", NL>>)]_vars

\* a script named after a section and one named after a selector, each
\* recorded when the log already held a script
C16_Witness ==
    /\ IsPipelineCall
    /\ last.raised = <<>>
    /\ last.op = "generate_from_section"
    /\ last.arg = <<"s", " ", "1">>
    /\ StartsWith(last.result, <<"def ", "tripd_", "s", "_", "1", "_", "1", "():", NL>>)

\* C17: no call of generate_script, generate_from_section, generate_response
\* or set_quantum_drift and no verb of the stream changes the section
\* mapping or the global command pool of the model; the extra verbs and the
\* drift are all of the model that such a step can change
C17_DictionaryUnchanged ==
    [][sections' = sections /\ all_commands' = all_commands]_vars

\* generate_from_section returned a script for a section it took whole,
\* after the drift was set and a verb of the stream was added
C17_Witness ==
    /\ last.op = "generate_from_section"
    /\ last.raised = <<>>
    /\ last.taken = Len(SectionGet(sections, last.section))
    /\ Len(last.commands) > last.taken
    /\ drift # "0.0"
    /\ Len(extra_verbs) > Len(EXTRA_VERBS)
    /\ sections = _load_dictionary(DictWide)
    /\ all_commands = AllCommandsOf(sections)

-----------------------------------------------------------------------------
(* Claims about loading the cache from an existing log *)

\* the texts of the lines of a file that are records written by log_script
WrittenTexts(file) ==
    LET written == SelectSeq(file.lines, LAMBDA line : "malformed" \notin DOMAIN line)
    IN [i \in 1..Len(written) |-> JsonUnescape(written[i].script)]

\* C18: the step that loads the cache from an existing log passes over
\* every line that is not a (hash, text) record, which adds nothing to the
\* hash set or the text list, and loads every well-formed line before and
\* after it: the set and the list hold the well-formed lines and no more
C18_MalformedLinesSkipped ==
    [][(~CACHE_LOADED /\ CACHE_LOADED') =>
          LET texts == WrittenTexts(log')
          IN IF memoryModule = Package
             THEN /\ SCRIPT_LIST' = texts
                  /\ SCRIPTS_INDEX' = {_hash_script(texts[i]) : i \in 1..Len(texts)}
             ELSE SCRIPTS_INDEX' = Range(texts)]_vars

-----------------------------------------------------------------------------
(* Claims about the verb stream *)

\* the verbs of the lines that arrived on a connection: each line that can
\* be decoded and is not blank, trimmed, in the order of arrival
VerbsReceived(conn) ==
    LET verbs == SelectSeq(conn.sent, LAMBDA line : line # Undecodable /\ Strip(line) # <<>>)
    IN [i \in 1..Len(verbs) |-> Strip(verbs[i])]

\* the entries of the pool that the handler of a connection appended
VerbsAppended(conn) == [i \in 1..Len(conn.put) |-> extra_verbs[conn.put[i]]]

\* C20: the pool begins with the entries it was built with; the entries a
\* handler appended are, in order and once each, the trimmed non-blank lines
\* that arrived on its connection, as far as it has got; and a handler
\* thread that has ended leaves no arrived line out. Several connections
\* and a generation call run at the same time.
C20_EveryLineAppended ==
    /\ StartsWith(extra_verbs, EXTRA_VERBS)
    /\ \A c \in 1..Len(conns) :
          /\ StartsWith(VerbsReceived(conns[c]), VerbsAppended(conns[c]))
          /\ \A i, j \in 1..Len(conns[c].put) : i < j => conns[c].put[i] < conns[c].put[j]
          /\ conns[c].thread # "running" => VerbsAppended(conns[c]) = VerbsReceived(conns[c])

-----------------------------------------------------------------------------
(* Claims about rotation and the cache of the package module *)

\* the step recorded a text that was not recorded before
IsNewAppend == memoryModule = Package /\ firstSeen' # firstSeen

\* the text the step recorded
NewText == firstSeen'[Len(firstSeen')]

\* C21: log_script rotates exactly when, at the moment of a new append, the
\* active file is larger than the threshold: the whole active file becomes
\* the backup, whatever the backup was, and the new entry is the only line
\* of the new active file; at or below the threshold the backup stays as it
\* is and the entry is added at the end of the active file; no other step
\* changes the backup.
C21_RotatesExactlyWhenOver ==
    [][/\ IsNewAppend =>
            IF log.exists /\ st_size(log) > LOG_MAX_BYTES
            THEN /\ backup' = log
                 /\ log' = [exists |-> TRUE, lines |-> <<PkgLine(NewText)>>]
            ELSE /\ backup' = backup
                 /\ log' = [exists |-> TRUE, lines |-> Append(log.lines, PkgLine(NewText))]
       /\ ~IsNewAppend => backup' = backup]_vars

\* C21 witness: a second rotation replaced the backup of the first: the
\* backup holds the second text only and the active file the third.
C21_Witness ==
    /\ memoryModule = Package
    /\ Len(firstSeen) = 3
    /\ FileScripts(backup) = <<firstSeen[2]>>
    /\ FileScripts(log) = <<firstSeen[3]>>

\* C22: in every state, also right after the load of an existing log file,
\* the hash set is exactly the set of the hashes of the texts in the list,
\* and the count is the number of texts load_scripts returns.
C22_IndexMatchesList ==
    /\ memoryModule = Package =>
            SCRIPTS_INDEX = {_hash_script(SCRIPT_LIST[i]) : i \in 1..Len(SCRIPT_LIST)}
    /\ \A result \in load_scripts(Store) : get_log_count(Store) = Len(result)

\* C23: the log file is read at most once: once the cache is loaded it stays
\* loaded, a further _load_cache() opens no file and changes neither the
\* files nor the cache, and log_script, get_log_count and load_scripts
\* answer from the cache alone, also when a rotation has left fewer lines in
\* the file than texts in the cache: the count and the list are those of
\* all the texts recorded, and a recorded text is rejected.
C23_LogReadAtMostOnce ==
    [][CACHE_LOADED =>
          /\ CACHE_LOADED'
          /\ last'.op = "_load_cache" => (~last'.opened /\ UNCHANGED storeVars)
          /\ last'.op = "get_log_count" => last'.result = Len(firstSeen)
          /\ last'.op = "load_scripts" =>
                (Len(last'.result) = Len(firstSeen) /\ Range(last'.result) = Range(firstSeen))
          /\ (last'.op = "log_script" /\ Seen(last'.arg)) => UNCHANGED storeVars]_vars

\* C23 witness: _load_cache() was called again after three texts were
\* recorded and rotations had left one line in the active file.
C23_Witness ==
    /\ last.op = "_load_cache"
    /\ ~last.opened
    /\ Len(firstSeen) = 3
    /\ Len(log.lines) = 1
    /\ Len(SCRIPT_LIST) = 3

-----------------------------------------------------------------------------
(* Claims about the section and the number of commands of a script *)

IsGenerateScript == last.op \in {"generate_script", "generate_response"}

\* the words of the message of the latest call
MessageWords == Range(PotentialVerbs(last.arg, 1))

\* the dictionary commands matched by a word of the message: for each word
\* the first command of the pool that contains it
MatchedCommands ==
    {all_commands[i] : i \in {i \in 1..Len(all_commands) :
        \E w \in MessageWords :
            /\ VerbInCommand(w, all_commands[i])
            /\ \A j \in 1..(i - 1) : ~VerbInCommand(w, all_commands[j])}}

\* the number of matched commands a section contains
MatchScore(name) == Cardinality(MatchedCommands \cap Range(SectionGet(sections, name)))

\* C24: generate_script on a dictionary that has sections: when a word of
\* the message matches a dictionary command, the section is the one that
\* contains the most matched commands, the first such in the order of the
\* dictionary; when none matches, it is the section at index int(selector)
\* mod the number of sections of the sorted section names.
C24_SectionChoice ==
    (IsGenerateScript /\ sections # <<>>) =>
        LET names == Keys(sections)
        IN IF MatchedCommands # {}
           THEN \E i \in 1..Len(names) :
                    /\ last.section = names[i]
                    /\ \A j \in 1..Len(names) : MatchScore(names[j]) <= MatchScore(names[i])
                    /\ \A j \in 1..(i - 1) : MatchScore(names[j]) < MatchScore(names[i])
           ELSE last.section = Names(sections)[(IntSelector(last.arg) % Len(names)) + 1]

\* C24 witness: two sections contain one matched command each, and the one
\* that is first in the dictionary and last in sorted order was chosen.
C24_Witness ==
    /\ IsGenerateScript
    /\ last.raised = <<>>
    /\ Len(sections) = 2
    /\ MatchScore(Keys(sections)[1]) = 1
    /\ MatchScore(Keys(sections)[2]) = 1
    /\ last.section = Keys(sections)[1]
    /\ last.section = Names(sections)[2]

\* the second term of the sum generate_script scales: the spectral entropy
\* of the record on a model in fractal mode, the entropy otherwise
SpectralOrEntropy ==
    IF fractal_metrics /\ "spectral" \in DOMAIN last.metrics
    THEN last.metrics.spectral ELSE last.metrics.entropy

\* target = 6 + floor(min(1, (entropy + spectral_or_entropy) / 10) * 8)
TargetFromMetrics ==
    last.target = 6 + (Min(10000, last.metrics.entropy + SpectralOrEntropy) * 8) \div 10000

\* the commands outside the chosen section that the first fill step left
GlobalPool ==
    Range(all_commands) \ (Range(SectionGet(sections, last.section))
                              \cup {last.commands[i] : i \in 1..last.taken})

\* the target is within 6..14; the section quota is floor(0.65 * target) and
\* the global quota the rest; the number of commands is at most the target
TargetSplit ==
    /\ last.target \in 6..14
    /\ 100 * last.quota <= 65 * last.target
    /\ 65 * last.target < 100 * (last.quota + 1)
    /\ last.taken <= last.quota
    /\ last.global = Min(last.target - last.quota, Cardinality(GlobalPool))
    /\ Len(last.commands) <= last.target

\* C25 (as stated): for every metrics record with non-negative entropy,
\* generate_script computes the target from the record, within 6..14, and
\* splits it into the two quotas; generate_from_section keeps the range and
\* the split; neither selects more commands than the target.
C25_TargetFromEntropy ==
    (IsPipelineCall /\ last.raised = <<>>) =>
        IF last.op = "generate_from_section" THEN TargetSplit
        ELSE last.metrics.entropy >= 0 => (TargetFromMetrics /\ TargetSplit)

\* C25 (amended): the same for every metrics record with non-negative
\* entropy and, on a model in fractal mode, non-negative spectral entropy.
C25_TargetFromEntropyAndSpectral ==
    (IsPipelineCall /\ last.raised = <<>>) =>
        IF last.op = "generate_from_section" THEN TargetSplit
        ELSE (last.metrics.entropy >= 0 /\ SpectralOrEntropy >= 0)
                => (TargetFromMetrics /\ TargetSplit)

\* C25 witness: a model in fractal mode was handed a record with entropy 0.0
\* and spectral entropy 3.0: the target is 8, split into 5 and 3.
C25_Witness ==
    /\ fractal_metrics
    /\ last.op = "generate_script"
    /\ last.raised = <<>>
    /\ last.metrics.entropy = 0
    /\ SpectralOrEntropy = 3000
    /\ last.target = 8
    /\ last.quota = 5
    /\ last.global = 3

\* C26: the script of a generation call shows the commands the fill steps
\* selected, up to the target number of them (6 to 14): every selected
\* command stands in the slot of its position, none is left out, and a slot
\* shows its default only when the list is shorter than its position.
C26_ScriptShowsSelectedCommands ==
    (IsPipelineCall /\ last.raised = <<>>) =>
        /\ last.target \in 6..14
        /\ \A i \in 1..Len(last.commands) :
              i <= Len(ShownCommands) /\ ShownCommands[i] = last.commands[i]
        /\ \A i \in 1..Len(ShownCommands) :
              i > Len(last.commands) =>
                 ShownCommands[i] =
                    Slots(script_templates[TemplateIndex(last.metrics)])[i].default

-----------------------------------------------------------------------------
(* Claims about the scripts of successive generation calls *)

\* the counter in the declaration line of a script: the number before "():"
CounterOf(script) ==
    LET at == CHOOSE i \in 1..Len(script) : script[i] = "():"
    IN CHOOSE n \in 0..(MaxGenerated + 1) : ToString(n) = script[at - 1]

\* the step is a generation call that returned a script
ReturnsScript ==
    /\ last'.op \in {"generate_script", "generate_from_section"}
    /\ last'.raised = <<>>
    /\ last' # last

\* C27: from an empty log, in any sequence of generate_script and
\* generate_from_section calls, the script a call builds is not in the log
\* before the call and is stored by it, the count grows by exactly one, and
\* the counters in the declaration lines of the scripts, in the order of the
\* calls, are strictly increasing.
C27_EveryGeneratedScriptIsNew ==
    /\ [](\A i, j \in 1..Len(firstSeen) :
             i < j => CounterOf(firstSeen[i]) < CounterOf(firstSeen[j]))
    /\ [][ReturnsScript =>
             /\ ~InIndex(last'.result)
             /\ InIndexAfter(last'.result)
             /\ FileScripts(log')[Len(log'.lines)] = last'.result
             /\ firstSeen' = Append(firstSeen, last'.result)
             /\ get_log_count(Store)' = get_log_count(Store) + 1
             /\ CounterOf(last'.result) = get_log_count(Store)]_vars

\* C27 witness: three scripts were built, by generate_script first and by
\* generate_from_section last, with the counters 0, 1 and 2.
C27_Witness ==
    /\ Len(firstSeen) = 3
    /\ last.op = "generate_from_section"
    /\ last.result = firstSeen[3]
    /\ StartsWith(firstSeen[1], <<"def ", "tripd_", "0", "_", "0", "():">>)
    /\ CounterOf(firstSeen[2]) = 1
    /\ CounterOf(firstSeen[3]) = 2

-----------------------------------------------------------------------------
(* Claims about the log across restarts of the process *)

\* C28: a text that was written to the log is not written again, also by a
\* process that loaded its cache from the active file after a rotation: a
\* log_script call with a text handed to log_script before leaves both
\* files as they are, and no text is both in the backup and in the active
\* file.
C28_NeverWrittenTwice ==
    /\ [](Range(FileScripts(log)) \cap Range(FileScripts(backup)) = {})
    /\ [][(IsLogScriptCall /\ Seen(last'.arg)) => UNCHANGED <<log, backup>>]_vars


\* C30: as long as no rotation has happened, every text of the list stands
\* on exactly one line of the active file, in the order of the list, and a
\* process that starts with an empty cache and loads it from the active file
\* has the same hash set and the same ordered text list as the process
\* before it.
C30_ReloadReproducesCache ==
    /\ []((memoryModule = Package /\ CACHE_LOADED /\ ~backup.exists) =>
            /\ Len(log.lines) = Len(SCRIPT_LIST)
            /\ \A i \in 1..Len(SCRIPT_LIST) : log.lines[i] = PkgLine(SCRIPT_LIST[i]))
    /\ [][(last'.op = "import" /\ memoryModule = Package /\ ~backup.exists) =>
            UNCHANGED <<SCRIPTS_INDEX, SCRIPT_LIST>>]_vars

\* a process was restarted on an unrotated log of two lines, one of them a
\* text with an embedded newline
C30_Witness ==
    /\ last.op = "import"
    /\ memoryModule = Package
    /\ ~backup.exists
    /\ Len(SCRIPT_LIST) = 2
    /\ Len(log.lines) = 2
    /\ \E i \in 1..2 : SCRIPT_LIST[i] = ScriptAB

====
